---- MODULE Spec2Model ----
(***************************************************************************)
(* Ecto Trees: the session synchronisation layer.                          *)
(*                                                                         *)
(*   - the pure world-state mutators of shared/mutations.ts,               *)
(*   - the session store, its scheduler and reaper (server/session.ts,     *)
(*     kept in server/index.ts lines 354-559),                             *)
(*   - the per-socket connection handler of server/index.ts,               *)
(*   - the client delivery / replay layer of src/hooks/useSession.ts and   *)
(*     the optimistic view of useWorldStates.                              *)
(*                                                                         *)
(* The specifications share the definitions:                              *)
(*   SpecMut     the mutators applied in any order to one world-state map, *)
(*   SpecStore   the session store under the reaper,                       *)
(*   SpecRetry   one client losing its connection, reconnecting, replaying,*)
(*   SpecExpiry  the same while the reaper may destroy the session,        *)
(*   SpecSync    two clients and their sessions exchanging mutations,      *)
(*   SpecBackoff one client through its whole reconnection schedule,       *)
(*   SpecAdmit   admission to a session that is one client short of full,  *)
(*   SpecServe   the server's message handler under any input,             *)
(*   SpecCreate  createSession on a store that is nearly full,             *)
(*   SpecSnap    snapshots of a session whose worlds change status,        *)
(*   SpecMature  maturation of stored saplings of every marker,            *)
(*   SpecReap    two sessions ageing past the reaper's thresholds,         *)
(*   SpecTeardown one client leaving, unmounting or losing its session,    *)
(*   SpecValid   frames on both sides of every limit of validation,        *)
(*   SpecLive    replay under fairness, with a mutation the server refuses.*)
(***************************************************************************)
EXTENDS Integers, Sequences, FiniteSets, TLC

(***************************************************************************)
(* Program constants (shared/types.ts, server/session.ts, useSession.ts).  *)
(***************************************************************************)
SAPLING_MATURE_MS == 300000  \* 5 * 60 * 1000
ALIVE_DEAD_MS == 1800000  \* 30 * 60 * 1000
DEAD_CLEAR_MS == 600000  \* 10 * 60 * 1000

ALIVE_TREE_TYPES == {"tree", "oak", "willow", "maple", "yew", "magic", "elder"}

\* Two world ids of the catalogue (src/data/worlds.json); worlds are independent.
WorldIds == {1, 2}

(***************************************************************************)
(* WorldState: an object with optional fields.  An absent (or undefined)   *)
(* numeric field is Undefined, an absent string field is NoString.         *)
(***************************************************************************)
Undefined == 0 - 1
NoString == "undefined"

IsDefined(x) == x # Undefined

BlankState ==
    [treeStatus |-> "none", treeType |-> NoString, treeHint |-> NoString,
     treeExactLocation |-> NoString, treeHealth |-> Undefined,
     treeSetAt |-> Undefined, matureAt |-> Undefined, deadAt |-> Undefined,
     nextSpawnTarget |-> Undefined, spawnSetAt |-> Undefined]

\* WorldStates: a map from the world ids that have an entry to their state.
EmptyStates == [w \in {} |-> BlankState]

HasEntry(states, worldId) == worldId \in DOMAIN states

\* { ...states, [worldId]: st }
WithEntry(states, worldId, st) ==
    [w \in DOMAIN states \cup {worldId} |-> IF w = worldId THEN st ELSE states[w]]

\* const next = { ...states }; delete next[worldId]
WithoutEntry(states, worldId) ==
    [w \in DOMAIN states \ {worldId} |-> states[w]]

(***************************************************************************)
(* applyTransitions: the four guarded stages, in the order of the source,  *)
(* each reading the result of the previous one.                            *)
(***************************************************************************)
StageMature(s, now) ==
    IF s.treeStatus = "sapling" /\ IsDefined(s.treeSetAt)
       /\ now >= s.treeSetAt + SAPLING_MATURE_MS
    THEN [s EXCEPT !.treeStatus = "mature",
                   !.treeType = IF s.treeType \in ALIVE_TREE_TYPES
                                THEN s.treeType ELSE "mature",
                   !.matureAt = s.treeSetAt + SAPLING_MATURE_MS]
    ELSE s

\* a StageDead that stamps the time of evaluation
StageDeadStampsNow(s, now) ==
    IF s.treeStatus \in {"mature", "alive"} /\ IsDefined(s.matureAt)
       /\ now >= s.matureAt + ALIVE_DEAD_MS
    THEN [s EXCEPT !.treeStatus = "dead",
                   !.deadAt = now,
                   !.nextSpawnTarget = Undefined,
                   !.spawnSetAt = Undefined]
    ELSE s

StageDead(s, now) ==
    IF s.treeStatus \in {"mature", "alive"} /\ IsDefined(s.matureAt)
       /\ now >= s.matureAt + ALIVE_DEAD_MS
    THEN [s EXCEPT !.treeStatus = "dead",
                   !.deadAt = s.matureAt + ALIVE_DEAD_MS,
                   !.nextSpawnTarget = Undefined,
                   !.spawnSetAt = Undefined]
    ELSE s

\* a StageClear that fires only after the threshold
StageClearExclusive(s, now) ==
    IF s.treeStatus = "dead" /\ IsDefined(s.deadAt)
       /\ now > s.deadAt + DEAD_CLEAR_MS
    THEN BlankState
    ELSE s

StageClear(s, now) ==
    IF s.treeStatus = "dead" /\ IsDefined(s.deadAt)
       /\ now >= s.deadAt + DEAD_CLEAR_MS
    THEN BlankState
    ELSE s

StageSpawn(s, now) ==
    IF IsDefined(s.nextSpawnTarget) /\ now >= s.nextSpawnTarget
    THEN [s EXCEPT !.treeStatus = "sapling",
                   !.treeType = "sapling",
                   !.treeSetAt = s.nextSpawnTarget,
                   !.matureAt = s.nextSpawnTarget + SAPLING_MATURE_MS,
                   !.nextSpawnTarget = Undefined,
                   !.spawnSetAt = Undefined]
    ELSE s

TransitionWorld(s, now) ==
    StageSpawn(StageClear(StageDead(StageMature(s, now), now), now), now)

applyTransitions(states, now) ==
    [w \in DOMAIN states |-> TransitionWorld(states[w], now)]

\* dirty: one of the four stages replaced s
Dirty(s, now) ==
    LET a == StageMature(s, now)
        b == StageDead(a, now)
        c == StageClear(b, now)
    IN a # s \/ b # a \/ c # b \/ StageSpawn(c, now) # c

\* changed: applyTransitions returns next and not the states it was given
TransitionsChanged(states, now) == \E w \in DOMAIN states : Dirty(states[w], now)

(***************************************************************************)
(* The mutators.                                                           *)
(***************************************************************************)
\* an applySetSpawnTimer that spreads the current entry
applySetSpawnTimerKeepsTree(states, worldId, msFromNow, now, treeHint) ==
    LET current == IF HasEntry(states, worldId) THEN states[worldId] ELSE BlankState
    IN WithEntry(states, worldId,
        [current EXCEPT !.treeStatus = "none",
                        !.nextSpawnTarget = now + msFromNow,
                        !.spawnSetAt = now,
                        !.treeHint = treeHint])

applySetSpawnTimer(states, worldId, msFromNow, now, treeHint) ==
    WithEntry(states, worldId,
        [BlankState EXCEPT !.nextSpawnTarget = now + msFromNow,
                           !.spawnSetAt = now,
                           !.treeHint = treeHint])

\* info: [treeType, treeHint, treeExactLocation, treeHealth]
applySetTreeInfoMissesSpawn(states, worldId, info, now) ==
    LET current == IF HasEntry(states, worldId) THEN states[worldId] ELSE BlankState
        isSapling == info.treeType = "sapling"
    IN WithEntry(states, worldId,
        [current EXCEPT !.treeType = info.treeType,
                        !.treeHint = info.treeHint,
                        !.treeExactLocation = info.treeExactLocation,
                        !.treeHealth = info.treeHealth,
                        !.treeSetAt = now,
                        !.matureAt = IF isSapling THEN now + SAPLING_MATURE_MS ELSE now,
                        !.treeStatus = IF isSapling THEN "sapling"
                                       ELSE IF info.treeType = "mature" THEN "mature"
                                       ELSE "alive",
                        !.deadAt = Undefined])

applySetTreeInfo(states, worldId, info, now) ==
    LET current == IF HasEntry(states, worldId) THEN states[worldId] ELSE BlankState
        isSapling == info.treeType = "sapling"
        isMatureUnknown == info.treeType = "mature"
    IN WithEntry(states, worldId,
        [current EXCEPT !.treeType = info.treeType,
                        !.treeHint = info.treeHint,
                        !.treeExactLocation = info.treeExactLocation,
                        !.treeHealth = info.treeHealth,
                        !.treeSetAt = now,
                        !.matureAt = IF isSapling THEN now + SAPLING_MATURE_MS ELSE now,
                        !.treeStatus = IF isSapling THEN "sapling"
                                       ELSE IF isMatureUnknown THEN "mature"
                                       ELSE "alive",
                        !.deadAt = Undefined,
                        !.nextSpawnTarget = Undefined,
                        !.spawnSetAt = Undefined])

\* fields: a TreeFieldsPayload, a function whose domain is the set of keys the
\* payload holds.  { ...current, ...fields, treeStatus: nextStatus }
applyUpdateTreeFields(states, worldId, fields) ==
    IF ~HasEntry(states, worldId) THEN states
    ELSE LET current == states[worldId]
             nextStatus == IF "treeType" \in DOMAIN fields
                              /\ fields["treeType"] \in ALIVE_TREE_TYPES
                              /\ current.treeStatus \in {"sapling", "mature"}
                           THEN "alive" ELSE current.treeStatus
         IN WithEntry(states, worldId,
             [k \in DOMAIN current |->
                 IF k = "treeStatus" THEN nextStatus
                 ELSE IF k \in DOMAIN fields THEN fields[k]
                 ELSE current[k]])

\* an applyUpdateHealth that makes an entry for a world without one
applyUpdateHealthUpserts(states, worldId, health) ==
    LET current == IF HasEntry(states, worldId) THEN states[worldId] ELSE BlankState
    IN WithEntry(states, worldId, [current EXCEPT !.treeHealth = health])

applyUpdateHealth(states, worldId, health) ==
    IF ~HasEntry(states, worldId) THEN states
    ELSE WithEntry(states, worldId, [states[worldId] EXCEPT !.treeHealth = health])

\* an applyMarkDead that returns the states when the world has no entry
applyMarkDeadNeedsEntry(states, worldId, now) ==
    IF ~HasEntry(states, worldId) THEN states
    ELSE WithEntry(states, worldId,
            [states[worldId] EXCEPT !.treeStatus = "dead",
                                    !.deadAt = now,
                                    !.nextSpawnTarget = Undefined,
                                    !.spawnSetAt = Undefined])

applyMarkDead(states, worldId, now) ==
    LET current == IF HasEntry(states, worldId) THEN states[worldId] ELSE BlankState
    IN WithEntry(states, worldId,
        [current EXCEPT !.treeStatus = "dead",
                        !.deadAt = now,
                        !.nextSpawnTarget = Undefined,
                        !.spawnSetAt = Undefined])

\* an applyClearWorld that returns an empty map
applyClearWorldAll(states, worldId) == EmptyStates

applyClearWorld(states, worldId) == WithoutEntry(states, worldId)

(***************************************************************************)
(* State.                                                                  *)
(***************************************************************************)
VARIABLES
    now,         \* Date.now()
    clockSteps,  \* how often the clock has advanced
    states,      \* SpecMut: the world-state map the mutators are applied to
    sessions,    \* the Session objects ever created, in creation order; the
                 \* store (the Map code -> Session) holds those with live = TRUE
    conns,       \* the WebSockets ever created, both ends of each
    cl,          \* useSession: the refs and the SessionState of each client
    view,        \* useWorldStates: each client's worldStates
    wire,        \* history: the mutations each client has passed to ws.send
    lastCleanupAt \* history: when cleanupExpiredSessions last ran

mutVars == <<states>>
clockVars == <<now, clockSteps>>
netVars == <<sessions, conns, cl, view, wire, lastCleanupAt>>
vars == <<now, clockSteps, states, sessions, conns, cl, view, wire, lastCleanupAt>>

ClientIds == {1, 2}

NoCode == "null"     \* codeRef.current === null
NoConn == 0          \* wsRef.current === null; sockets are numbered from 1
NoError == "null"    \* lastServerErrorRef.current === null, session.error === null
NoTime == 0 - 1      \* emptySince === null

\* The refs and the SessionState of a freshly mounted useSession with no
\* persisted session code.  pending is pendingMutationsRef, a Map in insertion
\* order; issued counts the calls of sendMutation.
InitialClient ==
    [ status |-> "disconnected", code |-> NoCode, storedCode |-> NoCode,
      error |-> NoError,
      wsRef |-> NoConn, reconnectAttempt |-> 0, reconnectTimer |-> FALSE,
      reconnectDelay |-> 0,
      intentionalClose |-> FALSE, lastServerError |-> NoError,
      snapshotReceived |-> FALSE, hasInitialStates |-> FALSE,
      initialStates |-> EmptyStates, msgIdCounter |-> 1, pending |-> << >>,
      issued |-> 0, ackLog |-> << >>,
      pingTimer |-> NoConn,      \* the socket of the ping interval, if one is set
      pingAckTimer |-> NoConn,   \* the socket of the pong timeout, if one is set
      mounted |-> TRUE ]

InitNet ==
    /\ sessions = << >>
    /\ conns = << >>
    /\ cl = [c \in ClientIds |-> InitialClient]
    /\ view = [c \in ClientIds |-> EmptyStates]
    /\ wire = [c \in ClientIds |-> << >>]
    /\ lastCleanupAt = 0

(***************************************************************************)
(* SpecMut: the mutators of shared/mutations.ts applied in any order,      *)
(* starting from the empty map, as the time passes.                        *)
(***************************************************************************)
MutMaxClockSteps == 2

MutDeltas == {SAPLING_MATURE_MS, ALIVE_DEAD_MS}
MsFromNowChoices == {SAPLING_MATURE_MS}
HintChoices == {"Close to a mine"}
InfoChoices ==
    [treeType : {"sapling", "oak"}, treeHint : {"Close to a mine"},
     treeExactLocation : {NoString}, treeHealth : {50}]
FieldsChoices ==
    { ("treeType" :> "oak") }
HealthChoices == {Undefined, 50}

InitClock == now = 0 /\ clockSteps = 0

AdvanceClock(d, maxSteps) ==
    /\ clockSteps < maxSteps
    /\ now' = now + d
    /\ clockSteps' = clockSteps + 1

InitMut == InitClock /\ states = EmptyStates /\ InitNet

MutAdvance(d) == AdvanceClock(d, MutMaxClockSteps) /\ UNCHANGED <<mutVars, netVars>>

MutSetSpawnTimer(w, ms, hint) ==
    /\ states' = applySetSpawnTimer(states, w, ms, now, hint)
    /\ UNCHANGED <<clockVars, netVars>>

MutSetTreeInfo(w, info) ==
    /\ states' = applySetTreeInfo(states, w, info, now)
    /\ UNCHANGED <<clockVars, netVars>>

MutUpdateTreeFields(w, fields) ==
    /\ states' = applyUpdateTreeFields(states, w, fields)
    /\ UNCHANGED <<clockVars, netVars>>

MutUpdateHealth(w, health) ==
    /\ states' = applyUpdateHealth(states, w, health)
    /\ UNCHANGED <<clockVars, netVars>>

MutMarkDead(w) ==
    /\ states' = applyMarkDead(states, w, now)
    /\ UNCHANGED <<clockVars, netVars>>

MutClearWorld(w) ==
    /\ states' = applyClearWorld(states, w)
    /\ UNCHANGED <<clockVars, netVars>>

MutTransitions ==
    /\ states' = applyTransitions(states, now)
    /\ UNCHANGED <<clockVars, netVars>>

NextMut ==
    \/ \E d \in MutDeltas : MutAdvance(d)
    \/ \E w \in WorldIds, ms \in MsFromNowChoices, hint \in HintChoices :
          MutSetSpawnTimer(w, ms, hint)
    \/ \E w \in WorldIds, info \in InfoChoices : MutSetTreeInfo(w, info)
    \/ \E w \in WorldIds, fields \in FieldsChoices : MutUpdateTreeFields(w, fields)
    \/ \E w \in WorldIds, health \in HealthChoices : MutUpdateHealth(w, health)
    \/ \E w \in WorldIds : MutMarkDead(w)
    \/ \E w \in WorldIds : MutClearWorld(w)
    \/ MutTransitions

SpecMut == InitMut /\ [][NextMut]_vars

(***************************************************************************)
(* Claims about the mutators.                                              *)
(***************************************************************************)
MaxAheadUnits == 9
EvalTimes == {now + k * SAPLING_MATURE_MS : k \in 0..MaxAheadUnits}

\* C1: for every world-state map and all times t1 < t2, applying the
\* transitions at t1 and then at t2 gives the same map as applying them at t2
\* alone.
C1_IntermediateEvaluation ==
    \A t1 \in EvalTimes, t2 \in EvalTimes :
        t1 < t2 =>
            applyTransitions(applyTransitions(states, t1), t2)
                = applyTransitions(states, t2)

\* C6: in every state reachable from the empty map by the mutators and the
\* transitions, nextSpawnTarget is set only when treeStatus is none.
C6_SpawnExcludesTree ==
    \A w \in DOMAIN states :
        IsDefined(states[w].nextSpawnTarget) => states[w].treeStatus = "none"

\* A pending spawn that replaced a recorded tree, beside a tree on another
\* world.
C6_Witness ==
    \E w \in DOMAIN states, v \in DOMAIN states :
        /\ IsDefined(states[w].nextSpawnTarget)
        /\ states[w].treeStatus = "none"
        /\ states[v].treeStatus \in {"sapling", "mature", "alive", "dead"}
        /\ ~IsDefined(states[v].nextSpawnTarget)

(***************************************************************************)
(* The session store and the WebSocket server.                             *)
(*                                                                         *)
(* A socket is one record with both of its ends: cst is the readyState the *)
(* browser reports, sst the readyState the server reports ("pending": the  *)
(* upgrade request has not reached the server yet).  c2s and s2c are the   *)
(* frames in flight in each direction.  sess is the Session the server's   *)
(* connection handler captured (activeSession), 0 when it captured none.   *)
(***************************************************************************)
MAX_RECONNECT_ATTEMPTS == 10
RECONNECT_DELAYS == <<1000, 2000, 4000, 8000, 16000, 30000>>
MAX_SESSIONS == 1000
MAX_CLIENTS_PER_SESSION == 1000
SESSION_INACTIVITY_MS == 86400000  \* 24 * 60 * 60 * 1000
EMPTY_SESSION_TTL_MS == 3600000  \* 60 * 60 * 1000
CLEANUP_INTERVAL_MS == 300000  \* 5 * 60 * 1000
MAX_MESSAGE_SIZE == 4096
MAX_INIT_MESSAGE_SIZE == 65536  \* 64 * 1024
RATE_LIMIT_WINDOW_MS == 1000
RATE_LIMIT_MAX == 10
MAX_WORLDS_INITIALIZE == 200
MAX_STRING_LEN == 200
VALID_TREE_STATUSES == {"none", "sapling", "mature", "alive", "dead"}
MAX_MS_FROM_NOW == 7200000  \* 2 * 60 * 60 * 1000
TREE_TYPES == {"sapling", "mature"} \cup ALIVE_TREE_TYPES
VALID_HEALTH_VALUES == {5 * i : i \in 1..20}
FATAL_ERRORS == {"Session not found.", "Session is full."}
SessionCodes == {"ABCDEF", "GHJKLM"}

NoSession == 0

SnapshotMsg(worlds) == [type |-> "snapshot", worlds |-> worlds]
WorldUpdateMsg(worldId, isNull, st) ==
    [type |-> "worldUpdate", worldId |-> worldId, isNull |-> isNull,
     state |-> IF isNull THEN BlankState ELSE st]
ClientCountMsg(count) == [type |-> "clientCount", count |-> count]
AckMsg(msgId) == [type |-> "ack", msgId |-> msgId]
PongMsg == [type |-> "pong"]
ErrorMsg(message) == [type |-> "error", message |-> message]
SessionClosedMsg(reason) == [type |-> "sessionClosed", reason |-> reason]

\* A frame travels to the browser only while the server's end is open, and the
\* browser delivers it only while its end is connecting or open.
Reaches(sock) == sock.sst = "open" /\ sock.cst \in {"connecting", "open"}

\* ws.send on the server
ServerSend(cs, k, msg) ==
    IF Reaches(cs[k]) THEN [cs EXCEPT ![k].s2c = Append(@, msg)] ELSE cs

\* ws.close() on the server: an open socket starts closing.
ServerClose(cs, k) ==
    IF cs[k].sst = "open" THEN [cs EXCEPT ![k].sst = "closing"] ELSE cs

\* broadcast to every open socket of the server, whatever its session
broadcastToAll(cs, session, msg) ==
    [k \in DOMAIN cs |->
        IF Reaches(cs[k]) THEN [cs[k] EXCEPT !.s2c = Append(@, msg)] ELSE cs[k]]

broadcast(cs, session, msg) ==
    [k \in DOMAIN cs |->
        IF k \in session.clients /\ Reaches(cs[k])
        THEN [cs[k] EXCEPT !.s2c = Append(@, msg)]
        ELSE cs[k]]

broadcastClientCount(cs, session) ==
    broadcast(cs, session, ClientCountMsg(Cardinality(session.clients)))

RECURSIVE broadcastEach(_, _, _)
broadcastEach(cs, session, msgs) ==
    IF msgs = << >> THEN cs
    ELSE broadcastEach(broadcast(cs, session, Head(msgs)), session, Tail(msgs))

LiveSessions(ss) == {i \in DOMAIN ss : ss[i].live}

\* sessions.get(code): the index of the stored Session, NoSession for undefined
getSession(ss, code) ==
    IF \E i \in LiveSessions(ss) : ss[i].code = code
    THEN CHOOSE i \in LiveSessions(ss) : ss[i].code = code
    ELSE NoSession

getSessionCount(ss) == Cardinality(LiveSessions(ss))

NewSession(code, t) ==
    [ code |-> code, live |-> TRUE, lastActivityAt |-> t,
      emptySince |-> t, worldStates |-> EmptyStates, clients |-> {},
      transitionTimer |-> TRUE ]   \* TRUE while the interval is set

\* the code in hand when the do/while of createSession ends: draws are the
\* results of the calls of generateCode, attempts the calls made so far
DrawnCode(ss, draws, attempts) ==
    LET Loop[a \in 1..10] ==
            IF getSession(ss, draws[a]) # NoSession /\ a < 10
            THEN Loop[a + 1]
            ELSE draws[a]
    IN Loop[attempts]

\* a createSession that admits one session more than the maximum
createSessionOffByOne(ss, draws, t) ==
    LET code == DrawnCode(ss, draws, 1)
    IN IF getSessionCount(ss) > MAX_SESSIONS
       THEN [error |-> "Maximum number of active sessions reached. Try again later.",
             code |-> NoCode, ss |-> ss]
       ELSE IF getSession(ss, code) # NoSession
       THEN [error |-> "Failed to generate unique session code. Try again.",
             code |-> NoCode, ss |-> ss]
       ELSE [error |-> NoError, code |-> code, ss |-> Append(ss, NewSession(code, t))]

\* createSession(): the error or the code it returns, and the store afterwards
createSession(ss, draws, t) ==
    LET code == DrawnCode(ss, draws, 1)
    IN IF getSessionCount(ss) >= MAX_SESSIONS
       THEN [error |-> "Maximum number of active sessions reached. Try again later.",
             code |-> NoCode, ss |-> ss]
       ELSE IF getSession(ss, code) # NoSession
       THEN [error |-> "Failed to generate unique session code. Try again.",
             code |-> NoCode, ss |-> ss]
       ELSE [error |-> NoError, code |-> code, ss |-> Append(ss, NewSession(code, t))]

IsActiveWorld(st) == st.treeStatus # "none" \/ IsDefined(st.nextSpawnTarget)

ActiveWorlds(worlds) ==
    [w \in {v \in DOMAIN worlds : IsActiveWorld(worlds[v])} |-> worlds[w]]

\* addClient: whether the socket was added (false for a full session), with
\* the store and the sockets afterwards
\* an addClient that admits one client more than the maximum
addClientOffByOne(ss, cs, i, k) ==
    LET joined == [ss[i] EXCEPT !.clients = @ \cup {k}, !.emptySince = NoTime]
        sent == ServerSend(cs, k, SnapshotMsg(ActiveWorlds(joined.worldStates)))
    IN IF Cardinality(ss[i].clients) > MAX_CLIENTS_PER_SESSION
       THEN [ok |-> FALSE, ss |-> ss, cs |-> cs]
       ELSE [ok |-> TRUE,
             ss |-> [ss EXCEPT ![i] = joined],
             cs |-> broadcastClientCount(sent, joined)]

\* an addClient whose snapshot holds every entry of the session
addClientSendsAll(ss, cs, i, k) ==
    LET joined == [ss[i] EXCEPT !.clients = @ \cup {k}, !.emptySince = NoTime]
        sent == ServerSend(cs, k, SnapshotMsg(joined.worldStates))
    IN IF Cardinality(ss[i].clients) >= MAX_CLIENTS_PER_SESSION
       THEN [ok |-> FALSE, ss |-> ss, cs |-> cs]
       ELSE [ok |-> TRUE,
             ss |-> [ss EXCEPT ![i] = joined],
             cs |-> broadcastClientCount(sent, joined)]

addClient(ss, cs, i, k) ==
    LET joined == [ss[i] EXCEPT !.clients = @ \cup {k}, !.emptySince = NoTime]
        sent == ServerSend(cs, k, SnapshotMsg(ActiveWorlds(joined.worldStates)))
    IN IF Cardinality(ss[i].clients) >= MAX_CLIENTS_PER_SESSION
       THEN [ok |-> FALSE, ss |-> ss, cs |-> cs]
       ELSE [ok |-> TRUE,
             ss |-> [ss EXCEPT ![i] = joined],
             cs |-> broadcastClientCount(sent, joined)]

\* a removeClient that leaves emptySince as it is
removeClientKeepsEmptySince(ss, cs, i, k, t) ==
    IF k \notin ss[i].clients THEN [ss |-> ss, cs |-> cs]
    ELSE LET left == [ss[i] EXCEPT !.clients = @ \ {k}]
         IN [ss |-> [ss EXCEPT ![i] = left],
             cs |-> broadcastClientCount(cs, left)]

removeClient(ss, cs, i, k, t) ==
    IF k \notin ss[i].clients THEN [ss |-> ss, cs |-> cs]
    ELSE LET rest == ss[i].clients \ {k}
             left == [ss[i] EXCEPT !.clients = rest,
                                   !.emptySince = IF rest = {} THEN t ELSE @]
         IN [ss |-> [ss EXCEPT ![i] = left],
             cs |-> broadcastClientCount(cs, left)]

updateWorldState(ss, cs, i, worldId, isNull, st, t) ==
    LET updated == [ss[i] EXCEPT
                      !.lastActivityAt = t,
                      !.worldStates = IF isNull THEN WithoutEntry(@, worldId)
                                      ELSE WithEntry(@, worldId, st)]
    IN [ss |-> [ss EXCEPT ![i] = updated],
        cs |-> broadcast(cs, updated, WorldUpdateMsg(worldId, isNull, st))]

RECURSIVE destroyClients(_, _, _)
destroyClients(cs, clients, reason) ==
    IF clients = {} THEN cs
    ELSE LET k == CHOOSE x \in clients : TRUE
         IN destroyClients(ServerClose(ServerSend(cs, k, SessionClosedMsg(reason)), k),
                           clients \ {k}, reason)

\* a destroySession that closes the sockets without a sessionClosed frame
destroySessionSilent(ss, cs, i, reason) ==
    [ss |-> [ss EXCEPT ![i].transitionTimer = FALSE, ![i].live = FALSE],
     cs |-> [k \in DOMAIN cs |->
               IF k \in ss[i].clients /\ cs[k].sst = "open"
               THEN [cs[k] EXCEPT !.sst = "closing"] ELSE cs[k]]]

destroySession(ss, cs, i, reason) ==
    [ss |-> [ss EXCEPT ![i].transitionTimer = FALSE, ![i].live = FALSE],
     cs |-> destroyClients(cs, ss[i].clients, reason)]

inactiveExpired(session, t) == t - session.lastActivityAt > SESSION_INACTIVITY_MS

emptyExpiredAsInactive(session, t) ==
    session.emptySince # NoTime /\ t - session.emptySince > SESSION_INACTIVITY_MS

emptyExpired(session, t) ==
    session.emptySince # NoTime /\ t - session.emptySince > EMPTY_SESSION_TTL_MS

RECURSIVE cleanupFrom(_, _, _, _)
cleanupFrom(ss, cs, i, t) ==
    IF i > Len(ss) THEN [ss |-> ss, cs |-> cs]
    ELSE IF ss[i].live /\ (inactiveExpired(ss[i], t) \/ emptyExpired(ss[i], t))
    THEN LET d == destroySession(ss, cs, i,
                    IF inactiveExpired(ss[i], t)
                    THEN "Session expired due to inactivity."
                    ELSE "Session closed after being empty for 60 minutes.")
         IN cleanupFrom(d.ss, d.cs, i + 1, t)
    ELSE cleanupFrom(ss, cs, i + 1, t)

cleanupExpiredSessions(ss, cs, t) == cleanupFrom(ss, cs, 1, t)

\* The worldUpdate frames of one run of a session's transition timer, in the
\* order of Object.keys (ascending world id).
RECURSIVE transitionUpdates(_, _, _)
transitionUpdates(prev, next, ids) ==
    IF ids = {} THEN << >>
    ELSE LET w == CHOOSE x \in ids : \A y \in ids : x <= y
             rest == transitionUpdates(prev, next, ids \ {w})
         IN IF next[w] # prev[w]
            THEN <<WorldUpdateMsg(w, FALSE, next[w])>> \o rest
            ELSE rest

\* a transition timer that broadcasts every world at every run
transitionTimerBroadcastsAll(ss, cs, i, t) ==
    LET prev == ss[i].worldStates
        next == applyTransitions(prev, t)
    IN [ss |-> [ss EXCEPT ![i].worldStates = next],
        cs |-> broadcastEach(cs, ss[i],
                   [j \in 1..Cardinality(DOMAIN next) |->
                       LET w == CHOOSE x \in DOMAIN next :
                                   Cardinality({y \in DOMAIN next : y < x}) = j - 1
                       IN WorldUpdateMsg(w, FALSE, next[w])])]

\* The worldUpdate frames with state null for the keys of prev that next lacks.
RECURSIVE removedUpdates(_, _, _)
removedUpdates(prev, next, ids) ==
    IF ids = {} THEN << >>
    ELSE LET w == CHOOSE x \in ids : \A y \in ids : x <= y
             rest == removedUpdates(prev, next, ids \ {w})
         IN IF w \notin DOMAIN next
            THEN <<WorldUpdateMsg(w, TRUE, BlankState)>> \o rest
            ELSE rest

\* a transition timer that broadcasts the changes and keeps the old map
transitionTimerKeepsPrev(ss, cs, i, t) ==
    LET prev == ss[i].worldStates
        next == applyTransitions(prev, t)
    IN IF ~TransitionsChanged(prev, t) THEN [ss |-> ss, cs |-> cs]
       ELSE [ss |-> ss,
             cs |-> broadcastEach(cs, ss[i], transitionUpdates(prev, next, DOMAIN next))]

transitionTimer(ss, cs, i, t) ==
    LET prev == ss[i].worldStates
        next == applyTransitions(prev, t)
    IN IF ~TransitionsChanged(prev, t) THEN [ss |-> ss, cs |-> cs]
       ELSE [ss |-> [ss EXCEPT ![i].worldStates = next],
             cs |-> broadcastEach(cs, ss[i],
                       transitionUpdates(prev, next, DOMAIN next)
                       \o removedUpdates(prev, next, DOMAIN prev))]

\* A string of a frame is a string of the model, NoString when the key is
\* missing.  ControlChars are the characters of [\x00-\x1F\x7F] that a string
\* of the model can hold; NullString is the null that sanitizeString returns.
ControlChars == {"\t", "\n", "\r", "\f"}
NullString == "null"

\* s.replace(/[\x00-\x1F\x7F]/g, '')
RECURSIVE stripControl(_)
stripControl(s) ==
    IF Len(s) = 0 THEN s
    ELSE IF Len(s) = 1 THEN (IF s \in ControlChars THEN "" ELSE s)
    ELSE LET half == Len(s) \div 2
         IN stripControl(SubSeq(s, 1, half)) \o stripControl(SubSeq(s, half + 1, Len(s)))

\* String.prototype.trim
RECURSIVE trim(_)
trim(s) ==
    IF Len(s) = 0 THEN s
    ELSE IF SubSeq(s, 1, 1) = " " THEN trim(SubSeq(s, 2, Len(s)))
    ELSE IF SubSeq(s, Len(s), Len(s)) = " " THEN trim(SubSeq(s, 1, Len(s) - 1))
    ELSE s

\* a sanitizeString without the limit on the length
sanitizeStringAnyLength(s) ==
    IF s = NoString THEN NullString ELSE trim(stripControl(s))

sanitizeString(s) ==
    IF s = NoString THEN NullString
    ELSE LET clean == trim(stripControl(s))
         IN IF Len(clean) > MAX_STRING_LEN THEN NullString ELSE clean

\* the optional string s as validation returns it
CleanOptional(s) == IF s = NoString THEN NoString ELSE sanitizeString(s)

\* validateWorldState: whether it returns a state and not null
validateWorldState(worldId, raw) ==
    /\ worldId \in WorldIds
    /\ raw.treeStatus \in VALID_TREE_STATUSES
    /\ raw.treeType # NoString => raw.treeType \in TREE_TYPES
    /\ CleanOptional(raw.treeHint) # NullString
    /\ CleanOptional(raw.treeExactLocation) # NullString
    /\ IsDefined(raw.treeHealth) => raw.treeHealth \in VALID_HEALTH_VALUES

\* the state validateWorldState returns for a raw state it accepts: a copy
\* field by field, with the strings cleaned
WorldStateOf(raw) ==
    [raw EXCEPT !.treeHint = CleanOptional(@), !.treeExactLocation = CleanOptional(@)]

\* an initializeState that rejects the batch when one of its entries is invalid
validateInitializeStateStrict(worlds) ==
    IF Cardinality(DOMAIN worlds) > MAX_WORLDS_INITIALIZE
    THEN [error |-> "Too many worlds in initializeState.", worlds |-> EmptyStates]
    ELSE IF \E v \in DOMAIN worlds : ~validateWorldState(v, worlds[v])
    THEN [error |-> "Invalid world state.", worlds |-> EmptyStates]
    ELSE [error |-> NoError, worlds |-> ActiveWorlds(worlds)]

\* validateInitializeState: the error it returns (NoError for none) and the
\* worlds it returns otherwise: the valid, active entries of the payload
validateInitializeState(worlds) ==
    IF Cardinality(DOMAIN worlds) > MAX_WORLDS_INITIALIZE
    THEN [error |-> "Too many worlds in initializeState.", worlds |-> EmptyStates]
    ELSE [error |-> NoError,
          worlds |-> [w \in {v \in DOMAIN worlds :
                                /\ validateWorldState(v, worlds[v])
                                /\ IsActiveWorld(worlds[v])} |-> WorldStateOf(worlds[w])]]

\* validateMessage: the error it returns, NoError when it returns the message.
\* A frame is the record of its JSON object, with Undefined for a number that
\* is missing, and has a known set of keys, so the checks on the JSON shape
\* are passed; the checks on the values are these.
validateMessage(raw) ==
    IF raw.type = "ping" THEN NoError
    ELSE IF raw.type = "initializeState" THEN validateInitializeState(raw.worlds).error
    ELSE IF raw.msgId # Undefined /\ raw.msgId <= 0 THEN "Invalid msgId."
    ELSE IF raw.worldId \notin WorldIds THEN "Invalid or missing worldId."
    ELSE IF raw.type = "setSpawnTimer"
         THEN IF raw.msFromNow <= 0 \/ raw.msFromNow > MAX_MS_FROM_NOW
              THEN "msFromNow must be a positive integer up to 2 hours."
              ELSE IF CleanOptional(raw.treeHint) = NullString
                   THEN "Invalid treeHint string."
              ELSE NoError
    ELSE IF raw.type = "setTreeInfo"
         THEN IF raw.info.treeType \notin TREE_TYPES THEN "Invalid treeType."
              ELSE IF sanitizeString(raw.info.treeHint) = NullString
                   THEN "Invalid treeHint."
              ELSE IF CleanOptional(raw.info.treeExactLocation) = NullString
                   THEN "Invalid treeExactLocation."
              ELSE IF raw.info.treeHealth # Undefined
                      /\ raw.info.treeHealth \notin VALID_HEALTH_VALUES
                   THEN "Invalid treeHealth."
              ELSE NoError
    ELSE IF raw.type = "updateTreeFields"
         THEN IF "treeType" \in DOMAIN raw.fields
                 /\ raw.fields["treeType"] \notin TREE_TYPES
              THEN "Invalid treeType."
              ELSE IF "treeHint" \in DOMAIN raw.fields
                      /\ sanitizeString(raw.fields["treeHint"]) = NullString
                   THEN "Invalid treeHint."
              ELSE IF "treeExactLocation" \in DOMAIN raw.fields
                      /\ sanitizeString(raw.fields["treeExactLocation"]) = NullString
                   THEN "Invalid treeExactLocation."
              ELSE IF "treeHealth" \in DOMAIN raw.fields
                      /\ raw.fields["treeHealth"] \notin VALID_HEALTH_VALUES
                   THEN "Invalid treeHealth."
              ELSE NoError
    ELSE IF raw.type = "updateHealth"
         THEN IF raw.health # Undefined /\ raw.health \notin VALID_HEALTH_VALUES
              THEN "Invalid health value."
              ELSE NoError
    ELSE IF raw.type \in {"markDead", "clearWorld"} THEN NoError
    ELSE "Unknown message type"

\* the message validateMessage returns for a frame it accepts: the frame with
\* its strings cleaned (handleMessage validates the worlds of an
\* initializeState where it stores them)
ValidatedMessage(raw) ==
    IF raw.type = "setSpawnTimer" THEN [raw EXCEPT !.treeHint = CleanOptional(@)]
    ELSE IF raw.type = "setTreeInfo"
         THEN [raw EXCEPT !.info.treeHint = sanitizeString(@),
                          !.info.treeExactLocation = CleanOptional(@)]
    ELSE IF raw.type = "updateTreeFields"
         THEN [raw EXCEPT !.fields =
                  [f \in DOMAIN raw.fields |->
                      IF f \in {"treeHint", "treeExactLocation"}
                      THEN sanitizeString(raw.fields[f]) ELSE raw.fields[f]]]
    ELSE raw

\* the switch of handleMessage
handleSwitch(ss, cs, i, msg, k, t) ==
    LET cur == ss[i].worldStates
        w == msg.worldId
        same == [ss |-> ss, cs |-> cs]
    IN      CASE msg.type = "ping" -> [ss |-> ss, cs |-> ServerSend(cs, k, PongMsg)]
              [] msg.type = "setSpawnTimer" ->
                   updateWorldState(ss, cs, i, w, FALSE,
                       applySetSpawnTimer(cur, w, msg.msFromNow, t, msg.treeHint)[w], t)
              [] msg.type = "setTreeInfo" ->
                   updateWorldState(ss, cs, i, w, FALSE,
                       applySetTreeInfo(cur, w, msg.info, t)[w], t)
              [] msg.type = "updateTreeFields" ->
                   IF HasEntry(cur, w)
                   THEN updateWorldState(ss, cs, i, w, FALSE,
                            applyUpdateTreeFields(cur, w, msg.fields)[w], t)
                   ELSE same
              [] msg.type = "updateHealth" ->
                   IF HasEntry(cur, w)
                   THEN updateWorldState(ss, cs, i, w, FALSE,
                            applyUpdateHealth(cur, w, msg.health)[w], t)
                   ELSE same
              [] msg.type = "markDead" ->
                   updateWorldState(ss, cs, i, w, FALSE, applyMarkDead(cur, w, t)[w], t)
              [] msg.type = "clearWorld" ->
                   updateWorldState(ss, cs, i, w, TRUE, BlankState, t)
              [] msg.type = "initializeState" ->
                   IF DOMAIN cur # {}
                   THEN [ss |-> ss,
                         cs |-> ServerSend(cs, k, ErrorMsg("Session already has state."))]
                   ELSE [ss |-> [ss EXCEPT ![i].worldStates =
                                              validateInitializeState(msg.worlds).worlds,
                                           ![i].lastActivityAt = t],
                         cs |-> cs]

\* a handleMessage that acknowledges before it applies
handleMessageAckFirst(ss, cs, i, msg, k, t) ==
    IF msg.type \notin {"ping", "initializeState"} /\ msg.msgId # Undefined
    THEN handleSwitch(ss, ServerSend(cs, k, AckMsg(msg.msgId)), i, msg, k, t)
    ELSE handleSwitch(ss, cs, i, msg, k, t)

\* a handleMessage whose initializeState replaces the state of the session
handleMessageSeedAlways(ss, cs, i, msg, k, t) ==
    IF msg.type = "initializeState"
    THEN [ss |-> [ss EXCEPT ![i].worldStates = validateInitializeState(msg.worlds).worlds,
                            ![i].lastActivityAt = t],
          cs |-> cs]
    ELSE LET handled == handleSwitch(ss, cs, i, msg, k, t)
         IN IF msg.type # "ping" /\ msg.msgId # Undefined
            THEN [ss |-> handled.ss, cs |-> ServerSend(handled.cs, k, AckMsg(msg.msgId))]
            ELSE handled

\* handleMessage for a validated message msg received on socket k of session i
handleMessage(ss, cs, i, msg, k, t) ==
    LET handled == handleSwitch(ss, cs, i, msg, k, t)
    IN IF msg.type \notin {"ping", "initializeState"} /\ msg.msgId # Undefined
       THEN [ss |-> handled.ss, cs |-> ServerSend(handled.cs, k, AckMsg(msg.msgId))]
       ELSE handled

(***************************************************************************)
(* The client: useSession (connection, reconnection, ack tracking) and     *)
(* useWorldStates (the view).  A pending entry is [id, msg, timer, ws]:    *)
(* the key of the Map, the message without msgId, whether its ack timeout  *)
(* is armed, and the socket the timeout's closure holds.  Every message    *)
(* carries two history tags that no handler reads: uid, the msgId of its   *)
(* first issue, and bornOn, the socket that was open when it was issued.   *)
(* Likewise a socket records whether an ack timeout closed it, whether it  *)
(* was ever open, the last error message its onmessage handled and the     *)
(* uids that were pending when it opened, and a                            *)
(* client the msgIds of the acks its handler has received.  storedCode is  *)
(* the localStorage entry of persistSessionCode, reconnectDelay the delay  *)
(* the reconnect timer was armed with (0 while no timer is armed).         *)
(***************************************************************************)
NewSocket(c, code) ==
    [ owner |-> c, code |-> code, sess |-> NoSession,
      cst |-> "connecting", sst |-> "pending", c2s |-> << >>, s2c |-> << >>,
      ackTimedOut |-> FALSE, atOpen |-> << >>, wasOpen |-> FALSE,
      lastError |-> NoError, rateCount |-> 0, rateStart |-> NoTime ]

\* ws.send in the browser; a frame for a socket the server has closed is lost
ClientSendAll(cs, k, frames) ==
    IF cs[k].cst = "open" /\ cs[k].sst # "closed"
    THEN [cs EXCEPT ![k].c2s = @ \o frames] ELSE cs

\* ws.close() in the browser; frames that arrive from now on are discarded
ClientClose(cs, k) ==
    IF cs[k].cst \in {"connecting", "open"}
    THEN [cs EXCEPT ![k].cst = "closing", ![k].s2c = << >>] ELSE cs

WithMsgId(msg, id) ==
    [f \in DOMAIN msg \cup {"msgId"} |-> IF f = "msgId" THEN id ELSE msg[f]]

clearPendingTimers(pending) ==
    [j \in DOMAIN pending |-> [pending[j] EXCEPT !.timer = FALSE]]

\* ws.close() on the socket that wsRef then lets go of: every handler of the
\* socket returns at its first line from now on, so its close event changes
\* nothing and the browser's end counts as closed at once.
ClientAbandon(cs, k) ==
    IF cs[k].cst # "closed"
    THEN [cs EXCEPT ![k].cst = "closed", ![k].s2c = << >>,
                    ![k].sst = IF @ = "pending" THEN "closed" ELSE @]
    ELSE cs

\* cleanup(): the pair of the client's refs and the sockets afterwards
\* a cleanup() that leaves the ping interval set
cleanupKeepsPingTimer(rec, cs) ==
    [rec |-> [rec EXCEPT !.pingAckTimer = NoConn,
                         !.reconnectTimer = FALSE,
                         !.reconnectDelay = 0,
                         !.pending = clearPendingTimers(@),
                         !.wsRef = NoConn],
     cs |-> IF rec.wsRef # NoConn THEN ClientAbandon(cs, rec.wsRef) ELSE cs]

cleanup(rec, cs) ==
    [rec |-> [rec EXCEPT !.pingTimer = NoConn,
                         !.pingAckTimer = NoConn,
                         !.reconnectTimer = FALSE,
                         !.reconnectDelay = 0,
                         !.pending = clearPendingTimers(@),
                         !.wsRef = NoConn],
     cs |-> IF rec.wsRef # NoConn THEN ClientAbandon(cs, rec.wsRef) ELSE cs]

connectWs(rec, cs, c, code) ==
    LET cleaned == cleanup([rec EXCEPT !.intentionalClose = TRUE], cs)
    IN [rec |-> [cleaned.rec EXCEPT !.intentionalClose = FALSE,
                                    !.snapshotReceived = FALSE,
                                    !.status = "connecting",
                                    !.error = NoError,
                                    !.wsRef = Len(cs) + 1],
        cs |-> Append(cleaned.cs, NewSocket(c, code))]

WireEntry(k, msgId, msg) ==
    [conn |-> k, msgId |-> msgId, uid |-> msg.uid, bornOn |-> msg.bornOn]

\* replayPendingMutations() re-sending every entry under the msgId it has
replayKeepsMsgIds(rec, cs, sent) ==
    LET k == rec.wsRef
        n == Len(rec.pending)
    IN IF k = NoConn \/ cs[k].cst # "open" THEN [rec |-> rec, cs |-> cs, sent |-> sent]
       ELSE [rec |-> [rec EXCEPT
                        !.pending = [j \in 1..n |->
                            [rec.pending[j] EXCEPT !.timer = TRUE, !.ws = k]]],
             cs |-> ClientSendAll(cs, k,
                        [j \in 1..n |-> WithMsgId(rec.pending[j].msg, rec.pending[j].id)]),
             sent |-> sent \o [j \in 1..n |->
                        WireEntry(k, rec.pending[j].id, rec.pending[j].msg)]]

\* replayPendingMutations(): refs, sockets and the client's send history
replayPendingMutations(rec, cs, sent) ==
    LET k == rec.wsRef
        n == Len(rec.pending)
        newId(j) == rec.msgIdCounter + j - 1
    IN IF k = NoConn \/ cs[k].cst # "open" THEN [rec |-> rec, cs |-> cs, sent |-> sent]
       ELSE [rec |-> [rec EXCEPT
                        !.msgIdCounter = @ + n,
                        !.pending = [j \in 1..n |->
                            [id |-> newId(j), msg |-> rec.pending[j].msg,
                             timer |-> TRUE, ws |-> k]]],
             cs |-> ClientSendAll(cs, k,
                        [j \in 1..n |-> WithMsgId(rec.pending[j].msg, newId(j))]),
             sent |-> sent \o [j \in 1..n |-> WireEntry(k, newId(j), rec.pending[j].msg)]]

sendMutation(rec, cs, sent, msg) ==
    LET k == rec.wsRef
        id == rec.msgIdCounter
        counted == [rec EXCEPT !.msgIdCounter = id + 1, !.issued = @ + 1]
    IN IF k # NoConn /\ cs[k].cst = "open"
       THEN [rec |-> [counted EXCEPT !.pending =
                        Append(@, [id |-> id, msg |-> msg, timer |-> TRUE, ws |-> k])],
             cs |-> ClientSendAll(cs, k, <<WithMsgId(msg, id)>>),
             sent |-> Append(sent, WireEntry(k, id, msg))]
       ELSE [rec |-> [counted EXCEPT !.pending =
                        Append(@, [id |-> id, msg |-> msg, timer |-> FALSE, ws |-> NoConn])],
             cs |-> cs,
             sent |-> sent]

\* { ...msg.worlds, ...initialStatesRef.current }
MergeWorlds(base, over) ==
    [w \in DOMAIN base \cup DOMAIN over |-> IF w \in DOMAIN over THEN over[w] ELSE base[w]]

RemoveAt(seq, j) == [x \in 1..(Len(seq) - 1) |-> IF x < j THEN seq[x] ELSE seq[x + 1]]

\* onmessage of the socket in wsRef: refs, sockets, history and view afterwards
onmessage(rec, cs, sent, vw, msg) ==
    LET same == [rec |-> rec, cs |-> cs, sent |-> sent, vw |-> vw]
    IN CASE msg.type = "snapshot" ->
              LET worlds == IF rec.hasInitialStates
                            THEN MergeWorlds(msg.worlds, rec.initialStates)
                            ELSE msg.worlds
                  r == replayPendingMutations(
                          [rec EXCEPT !.hasInitialStates = FALSE,
                                      !.initialStates = EmptyStates,
                                      !.snapshotReceived = TRUE], cs, sent)
              IN [rec |-> r.rec, cs |-> r.cs, sent |-> r.sent, vw |-> worlds]
         [] msg.type = "worldUpdate" ->
              [same EXCEPT !.vw = IF msg.isNull THEN WithoutEntry(vw, msg.worldId)
                                  ELSE WithEntry(vw, msg.worldId, msg.state)]
         [] msg.type = "ack" ->
              IF \E j \in DOMAIN rec.pending : rec.pending[j].id = msg.msgId
              THEN LET j == CHOOSE x \in DOMAIN rec.pending : rec.pending[x].id = msg.msgId
                   IN [same EXCEPT !.rec.pending = RemoveAt(@, j),
                                   !.rec.ackLog = Append(@, msg.msgId)]
              ELSE [same EXCEPT !.rec.ackLog = Append(@, msg.msgId)]
         [] msg.type = "pong" -> [same EXCEPT !.rec.pingAckTimer = NoConn]
         [] msg.type = "error" ->
              [same EXCEPT !.rec.lastServerError = msg.message,
                           !.rec.error = msg.message]
         [] msg.type = "sessionClosed" ->
              LET cleaned == cleanup([rec EXCEPT !.intentionalClose = TRUE], cs)
              IN [rec |-> [cleaned.rec EXCEPT !.code = NoCode, !.pending = << >>,
                                              !.status = "disconnected",
                                              !.error = msg.reason],
                  cs |-> cleaned.cs, sent |-> sent, vw |-> vw]
         [] OTHER -> same

\* a backoff that keeps doubling
ReconnectDelayUncapped(attempt) == 1000 * 2 ^ attempt

\* RECONNECT_DELAYS[Math.min(attempt, RECONNECT_DELAYS.length - 1)]
ReconnectDelay(attempt) ==
    RECONNECT_DELAYS[(IF attempt < Len(RECONNECT_DELAYS) - 1
                      THEN attempt ELSE Len(RECONNECT_DELAYS) - 1) + 1]

\* onclose discarding the queue before it schedules the reconnect
oncloseDropsPending(rec) ==
    LET closed == [rec EXCEPT !.wsRef = NoConn, !.pingTimer = NoConn,
                              !.pingAckTimer = NoConn, !.pending = << >>]
    IN IF closed.intentionalClose THEN [closed EXCEPT !.intentionalClose = FALSE]
       ELSE IF closed.lastServerError \in FATAL_ERRORS
       THEN [closed EXCEPT !.code = NoCode, !.storedCode = NoCode,
                           !.status = "disconnected"]
       ELSE IF closed.reconnectAttempt >= MAX_RECONNECT_ATTEMPTS
       THEN [closed EXCEPT !.status = "disconnected", !.error = "Unable to reconnect."]
       ELSE [closed EXCEPT !.reconnectAttempt = @ + 1, !.status = "connecting",
                           !.reconnectTimer = TRUE,
                           !.reconnectDelay = ReconnectDelay(closed.reconnectAttempt)]

\* onclose of the socket in wsRef
onclose(rec) ==
    LET closed == [rec EXCEPT !.wsRef = NoConn, !.pingTimer = NoConn,
                              !.pingAckTimer = NoConn,
                              !.pending = clearPendingTimers(@)]
    IN IF closed.intentionalClose THEN [closed EXCEPT !.intentionalClose = FALSE]
       ELSE IF closed.lastServerError \in FATAL_ERRORS
       THEN [closed EXCEPT !.code = NoCode, !.storedCode = NoCode,
                           !.pending = << >>, !.status = "disconnected"]
       ELSE IF closed.reconnectAttempt >= MAX_RECONNECT_ATTEMPTS
       THEN [closed EXCEPT !.pending = << >>, !.status = "disconnected",
                           !.error = "Unable to reconnect."]
       ELSE [closed EXCEPT !.reconnectAttempt = @ + 1, !.status = "connecting",
                           !.reconnectTimer = TRUE,
                           !.reconnectDelay = ReconnectDelay(closed.reconnectAttempt)]

(***************************************************************************)
(* Actions of the clients.  The user interface offers create and join      *)
(* while the status is disconnected, and leave while it is not.            *)
(***************************************************************************)
SetSpawnTimerMsg(w, ms, hint) ==
    [type |-> "setSpawnTimer", worldId |-> w, msFromNow |-> ms, treeHint |-> hint]
SetTreeInfoMsg(w, info) == [type |-> "setTreeInfo", worldId |-> w, info |-> info]
UpdateTreeFieldsMsg(w, fields) == [type |-> "updateTreeFields", worldId |-> w, fields |-> fields]
UpdateHealthMsg(w, health) == [type |-> "updateHealth", worldId |-> w, health |-> health]
MarkDeadMsg(w) == [type |-> "markDead", worldId |-> w]
ClearWorldMsg(w) == [type |-> "clearWorld", worldId |-> w]

\* the optimistic update of useWorldStates for the user action m
applyLocal(vw, m, t) ==
    CASE m.type = "setSpawnTimer" -> applySetSpawnTimer(vw, m.worldId, m.msFromNow, t, m.treeHint)
      [] m.type = "setTreeInfo" -> applySetTreeInfo(vw, m.worldId, m.info, t)
      [] m.type = "updateTreeFields" -> applyUpdateTreeFields(vw, m.worldId, m.fields)
      [] m.type = "updateHealth" -> applyUpdateHealth(vw, m.worldId, m.health)
      [] m.type = "markDead" -> applyMarkDead(vw, m.worldId, t)
      [] m.type = "clearWorld" -> applyClearWorld(vw, m.worldId)

Tagged(m, rec, cs) ==
    [f \in DOMAIN m \cup {"uid", "bornOn"} |->
        IF f = "uid" THEN rec.msgIdCounter
        ELSE IF f = "bornOn"
             THEN IF rec.wsRef # NoConn /\ cs[rec.wsRef].cst = "open" THEN rec.wsRef ELSE NoConn
        ELSE m[f]]

\* POST /api/session and the rest of the hook's createSession
UserCreateSession(c, code) ==
    /\ cl[c].status = "disconnected"
    /\ getSessionCount(sessions) < MAX_SESSIONS
    /\ getSession(sessions, code) = NoSession
    /\ sessions' = Append(sessions, NewSession(code, now))
    /\ LET r == connectWs([cl[c] EXCEPT !.code = code, !.storedCode = code,
                                        !.hasInitialStates = TRUE,
                                        !.initialStates = view[c],
                                        !.pending = << >>], conns, c, code)
       IN cl' = [cl EXCEPT ![c] = r.rec] /\ conns' = r.cs
    /\ UNCHANGED <<clockVars, mutVars, view, wire, lastCleanupAt>>

\* POST /api/session and the rest of the hook's createSession, with the codes
\* generateCode returns to the server; the response with status 503 carries
\* the error of createSession
UserCreateSessionDrawn(c, draws) ==
    /\ cl[c].status = "disconnected"
    /\ LET result == createSession(sessions, draws, now)
       IN IF result.error # NoError
          THEN /\ cl' = [cl EXCEPT ![c].error = result.error]
               /\ UNCHANGED <<sessions, conns>>
          ELSE /\ sessions' = result.ss
               /\ LET r == connectWs([cl[c] EXCEPT !.code = result.code,
                                                   !.storedCode = result.code,
                                                   !.hasInitialStates = TRUE,
                                                   !.initialStates = view[c],
                                                   !.pending = << >>],
                                     conns, c, result.code)
                  IN cl' = [cl EXCEPT ![c] = r.rec] /\ conns' = r.cs
    /\ UNCHANGED <<clockVars, mutVars, view, wire, lastCleanupAt>>

\* GET /api/session/:code and the rest of the hook's joinSession
UserJoinSession(c, code) ==
    /\ cl[c].status = "disconnected"
    /\ IF getSession(sessions, code) = NoSession
       THEN /\ cl' = [cl EXCEPT ![c].error = "Session not found."]
            /\ UNCHANGED conns
       ELSE LET r == connectWs([cl[c] EXCEPT !.code = code, !.storedCode = code,
                                            !.pending = << >>],
                               conns, c, code)
            IN cl' = [cl EXCEPT ![c] = r.rec] /\ conns' = r.cs
    /\ UNCHANGED <<clockVars, mutVars, sessions, view, wire, lastCleanupAt>>

UserLeaveSession(c) ==
    /\ cl[c].status # "disconnected"
    /\ LET r == cleanup([cl[c] EXCEPT !.intentionalClose = TRUE], conns)
       IN /\ cl' = [cl EXCEPT ![c] = [r.rec EXCEPT !.code = NoCode,
                                                   !.storedCode = NoCode,
                                                   !.reconnectAttempt = 0,
                                                   !.pending = << >>,
                                                   !.status = "disconnected",
                                                   !.error = NoError]]
          /\ conns' = r.cs
    /\ UNCHANGED <<clockVars, mutVars, sessions, view, wire, lastCleanupAt>>

\* one of the six callbacks of useWorldStates; sync is null while disconnected
UserMutate(c, m) ==
    /\ view' = [view EXCEPT ![c] = applyLocal(@, m, now)]
    /\ IF cl[c].status # "disconnected"
       THEN LET r == sendMutation(cl[c], conns, wire[c], Tagged(m, cl[c], conns))
            IN /\ cl' = [cl EXCEPT ![c] = r.rec]
               /\ conns' = r.cs
               /\ wire' = [wire EXCEPT ![c] = r.sent]
       ELSE UNCHANGED <<cl, conns, wire>>
    /\ UNCHANGED <<clockVars, mutVars, sessions, lastCleanupAt>>

\* the 1 s interval of useWorldStates
ClientTick(c) ==
    /\ view' = [view EXCEPT ![c] = applyTransitions(@, now)]
    /\ UNCHANGED <<clockVars, mutVars, sessions, conns, cl, wire, lastCleanupAt>>

\* ws.onopen: the server has answered the upgrade request
ClientOpen(k) ==
    /\ k \in DOMAIN conns
    /\ conns[k].cst = "connecting"
    /\ conns[k].sst # "pending"
    /\ LET c == conns[k].owner
           opened == [conns EXCEPT ![k].cst = "open", ![k].wasOpen = TRUE,
                                   ![k].atOpen = [j \in DOMAIN cl[c].pending |->
                                                     cl[c].pending[j].msg.uid]]
       IN IF cl[c].wsRef # k
          THEN conns' = opened /\ UNCHANGED <<cl, wire>>
          ELSE /\ cl' = [cl EXCEPT ![c].reconnectAttempt = 0,
                                   ![c].lastServerError = NoError,
                                   ![c].status = "connected",
                                   ![c].error = NoError,
                                   ![c].pingTimer = k]
               /\ IF cl[c].hasInitialStates
                  THEN /\ conns' = ClientSendAll(opened, k,
                              << [type |-> "initializeState", worlds |-> cl[c].initialStates] >>)
                       /\ wire' = [wire EXCEPT ![c] =
                              Append(@, [conn |-> k, msgId |-> 0, uid |-> 0, bornOn |-> k])]
                  ELSE conns' = opened /\ UNCHANGED wire
    /\ UNCHANGED <<clockVars, mutVars, sessions, view, lastCleanupAt>>

\* ws.onmessage for the next frame from the server
ClientReceive(k) ==
    /\ k \in DOMAIN conns
    /\ conns[k].cst = "open"
    /\ conns[k].s2c # << >>
    /\ LET c == conns[k].owner
           popped == [conns EXCEPT ![k].s2c = Tail(@)]
       IN IF cl[c].wsRef # k
          THEN conns' = popped /\ UNCHANGED <<cl, wire, view>>
          ELSE LET msg == Head(conns[k].s2c)
                   noted == IF msg.type = "error"
                            THEN [popped EXCEPT ![k].lastError = msg.message]
                            ELSE popped
                   r == onmessage(cl[c], noted, wire[c], view[c], msg)
               IN /\ cl' = [cl EXCEPT ![c] = r.rec]
                  /\ conns' = r.cs
                  /\ wire' = [wire EXCEPT ![c] = r.sent]
                  /\ view' = [view EXCEPT ![c] = r.vw]
    /\ UNCHANGED <<clockVars, mutVars, sessions, lastCleanupAt>>

\* The browser's end of the socket closes: the closing handshake ended, the
\* connection attempt failed, or the network dropped.  Frames not yet
\* delivered are lost.
ClientCloseEvent(k) ==
    /\ k \in DOMAIN conns
    /\ conns[k].cst # "closed"
    /\ conns' = [conns EXCEPT ![k].cst = "closed", ![k].s2c = << >>,
                              ![k].sst = IF @ = "pending" THEN "closed" ELSE @]
    /\ LET c == conns[k].owner
       IN IF cl[c].wsRef # k THEN UNCHANGED cl
          ELSE cl' = [cl EXCEPT ![c] = onclose(@)]
    /\ UNCHANGED <<clockVars, mutVars, sessions, view, wire, lastCleanupAt>>

\* an ack timeout that also gives the mutation up
AckTimeoutDropsEntry(c, j) ==
    /\ j \in DOMAIN cl[c].pending
    /\ cl[c].pending[j].timer
    /\ LET k == cl[c].pending[j].ws
       IN /\ cl[c].wsRef = k
          /\ conns[k].cst = "open"
          /\ conns' = [ClientClose(conns, k) EXCEPT ![k].ackTimedOut = TRUE]
    /\ cl' = [cl EXCEPT ![c].pending = RemoveAt(@, j)]
    /\ UNCHANGED <<clockVars, mutVars, sessions, view, wire, lastCleanupAt>>

\* The ack timeout of the j-th pending entry fires.  Its callback closes the
\* socket it was armed for if that is still the open socket of wsRef, and does
\* nothing otherwise, now and whenever it might fire later.
AckTimeout(c, j) ==
    /\ j \in DOMAIN cl[c].pending
    /\ cl[c].pending[j].timer
    /\ LET k == cl[c].pending[j].ws
       IN /\ cl[c].wsRef = k
          /\ conns[k].cst = "open"
          /\ conns' = [ClientClose(conns, k) EXCEPT ![k].ackTimedOut = TRUE]
    /\ UNCHANGED <<clockVars, mutVars, sessions, cl, view, wire, lastCleanupAt>>

\* A frame that sendMutation did not build is sent on socket k: the ping of
\* the hook's 30 s interval, or the text of any other WebSocket peer.
PeerSend(k, frame) ==
    /\ k \in DOMAIN conns
    /\ conns[k].cst = "open"
    /\ conns' = ClientSendAll(conns, k, <<frame>>)
    /\ UNCHANGED <<clockVars, mutVars, sessions, cl, view, wire, lastCleanupAt>>

\* the ping interval fires: a ping is sent and the pong timeout is set anew
PingTimerFires(c) ==
    /\ cl[c].pingTimer # NoConn
    /\ LET k == cl[c].pingTimer
       IN IF conns[k].cst = "open"
          THEN /\ conns' = ClientSendAll(conns, k, << [type |-> "ping"] >>)
               /\ cl' = [cl EXCEPT ![c].pingAckTimer = k]
          ELSE UNCHANGED <<conns, cl>>
    /\ UNCHANGED <<clockVars, mutVars, sessions, view, wire, lastCleanupAt>>

\* the pong timeout fires
PingAckTimeout(c) ==
    /\ cl[c].pingAckTimer # NoConn
    /\ LET k == cl[c].pingAckTimer
       IN /\ cl' = [cl EXCEPT ![c].pingAckTimer = NoConn]
          /\ conns' = IF cl[c].wsRef = k /\ conns[k].cst = "open"
                      THEN ClientClose(conns, k) ELSE conns
    /\ UNCHANGED <<clockVars, mutVars, sessions, view, wire, lastCleanupAt>>

\* the cleanup of the effect that runs when the component unmounts
Unmount(c) ==
    /\ cl[c].mounted
    /\ LET r == cleanup([cl[c] EXCEPT !.intentionalClose = TRUE], conns)
       IN /\ cl' = [cl EXCEPT ![c] = [r.rec EXCEPT !.mounted = FALSE]]
          /\ conns' = r.cs
    /\ UNCHANGED <<clockVars, mutVars, sessions, view, wire, lastCleanupAt>>

\* the reconnect timeout fires
ReconnectTimerFires(c) ==
    /\ cl[c].reconnectTimer
    /\ IF cl[c].code # NoCode
       THEN LET r == connectWs(cl[c], conns, c, cl[c].code)
            IN cl' = [cl EXCEPT ![c] = r.rec] /\ conns' = r.cs
       ELSE cl' = [cl EXCEPT ![c].reconnectTimer = FALSE, ![c].reconnectDelay = 0]
            /\ UNCHANGED conns
    /\ UNCHANGED <<clockVars, mutVars, sessions, view, wire, lastCleanupAt>>

(***************************************************************************)
(* Actions of the server.                                                  *)
(***************************************************************************)
\* wss.on('connection') for the upgrade request of socket k
ServerAccept(k) ==
    /\ k \in DOMAIN conns
    /\ conns[k].sst = "pending"
    /\ LET i == getSession(sessions, conns[k].code)
           opened == [conns EXCEPT ![k].sst = "open"]
       IN IF i = NoSession
          THEN /\ conns' = ServerClose(ServerSend(opened, k, ErrorMsg("Session not found.")), k)
               /\ UNCHANGED sessions
          ELSE LET r == addClient(sessions, opened, i, k)
               IN IF ~r.ok
                  THEN /\ conns' = ServerClose(ServerSend(r.cs, k, ErrorMsg("Session is full.")), k)
                       /\ sessions' = r.ss
                  ELSE /\ sessions' = r.ss
                       /\ conns' = [r.cs EXCEPT ![k].sess = i]
    /\ UNCHANGED <<clockVars, mutVars, cl, view, wire, lastCleanupAt>>

\* The text of a frame: a frame that is not the hook's serialisation of its
\* record carries the length of its text and whether the text parses.  The
\* hook's frames for the worlds of the model are a few hundred characters.
HookFrameLength == 512
FrameLength(raw) == IF "length" \in DOMAIN raw THEN raw.length ELSE HookFrameLength
Parses(raw) == "parses" \in DOMAIN raw => raw.parses
SizeLimit(raw) ==
    IF raw.type = "initializeState" THEN MAX_INIT_MESSAGE_SIZE ELSE MAX_MESSAGE_SIZE

\* checkRateLimit: whether the frame is within the limit, and the socket with
\* its RateState afterwards (rateStart is NoTime while it has none)
\* a checkRateLimit that lets an eleventh frame through
checkRateLimitAllowsEleven(sock, t) ==
    IF sock.rateStart = NoTime \/ t - sock.rateStart > RATE_LIMIT_WINDOW_MS
    THEN [ok |-> TRUE, sock |-> [sock EXCEPT !.rateCount = 1, !.rateStart = t]]
    ELSE [ok |-> sock.rateCount <= RATE_LIMIT_MAX,
          sock |-> [sock EXCEPT !.rateCount = @ + 1]]

checkRateLimit(sock, t) ==
    IF sock.rateStart = NoTime \/ t - sock.rateStart > RATE_LIMIT_WINDOW_MS
    THEN [ok |-> TRUE, sock |-> [sock EXCEPT !.rateCount = 1, !.rateStart = t]]
    ELSE [ok |-> sock.rateCount + 1 <= RATE_LIMIT_MAX,
          sock |-> [sock EXCEPT !.rateCount = @ + 1]]

\* a ws.on('message') that terminates the connection of a sender over the rate limit
ServerReceiveDropsFlooder(k) ==
    /\ k \in DOMAIN conns
    /\ conns[k].sst \in {"open", "closing"}
    /\ conns[k].sess # NoSession
    /\ conns[k].c2s # << >>
    /\ LET i == conns[k].sess
           raw == Head(conns[k].c2s)
           popped == [conns EXCEPT ![k].c2s = Tail(@)]
           rate == checkRateLimit(popped[k], now)
           counted == [popped EXCEPT ![k] = rate.sock]
           verdict == validateMessage(raw)
       IN IF k \notin sessions[i].clients
          THEN conns' = ServerClose(popped, k) /\ UNCHANGED sessions
          ELSE IF FrameLength(raw) > SizeLimit(raw)
          THEN conns' = ServerSend(popped, k, ErrorMsg("Message too large."))
               /\ UNCHANGED sessions
          ELSE IF ~rate.ok
          THEN conns' = ServerClose(ServerSend(counted, k, ErrorMsg("Rate limit exceeded.")), k)
               /\ UNCHANGED sessions
          ELSE IF ~Parses(raw)
          THEN conns' = ServerSend(counted, k, ErrorMsg("Invalid JSON."))
               /\ UNCHANGED sessions
          ELSE IF verdict # NoError
          THEN conns' = ServerSend(counted, k, ErrorMsg(verdict)) /\ UNCHANGED sessions
          ELSE LET r == handleMessage(sessions, counted, i, ValidatedMessage(raw), k, now)
               IN sessions' = r.ss /\ conns' = r.cs
    /\ UNCHANGED <<clockVars, mutVars, cl, view, wire, lastCleanupAt>>

\* ws.on('message') for the next frame of socket k
ServerReceive(k) ==
    /\ k \in DOMAIN conns
    /\ conns[k].sst \in {"open", "closing"}
    /\ conns[k].sess # NoSession
    /\ conns[k].c2s # << >>
    /\ LET i == conns[k].sess
           raw == Head(conns[k].c2s)
           popped == [conns EXCEPT ![k].c2s = Tail(@)]
           rate == checkRateLimit(popped[k], now)
           counted == [popped EXCEPT ![k] = rate.sock]
           verdict == validateMessage(raw)
       IN IF k \notin sessions[i].clients
          THEN conns' = ServerClose(popped, k) /\ UNCHANGED sessions
          ELSE IF FrameLength(raw) > SizeLimit(raw)
          THEN conns' = ServerSend(popped, k, ErrorMsg("Message too large."))
               /\ UNCHANGED sessions
          ELSE IF ~rate.ok
          THEN conns' = ServerSend(counted, k, ErrorMsg("Rate limit exceeded."))
               /\ UNCHANGED sessions
          ELSE IF ~Parses(raw)
          THEN conns' = ServerSend(counted, k, ErrorMsg("Invalid JSON."))
               /\ UNCHANGED sessions
          ELSE IF verdict # NoError
          THEN conns' = ServerSend(counted, k, ErrorMsg(verdict)) /\ UNCHANGED sessions
          ELSE LET r == handleMessage(sessions, counted, i, ValidatedMessage(raw), k, now)
               IN sessions' = r.ss /\ conns' = r.cs
    /\ UNCHANGED <<clockVars, mutVars, cl, view, wire, lastCleanupAt>>

\* a close that removes the client and leaves the socket receiving
ServerCloseEventKeepsListening(k) ==
    /\ k \in DOMAIN conns
    /\ conns[k].sst = "open"
    /\ LET closing == [conns EXCEPT ![k].sst = "closing"]
       IN IF conns[k].sess = NoSession
          THEN conns' = closing /\ UNCHANGED sessions
          ELSE LET r == removeClient(sessions, closing, conns[k].sess, k, now)
               IN sessions' = r.ss /\ conns' = r.cs
    /\ UNCHANGED <<clockVars, mutVars, cl, view, wire, lastCleanupAt>>

\* ws.on('close'): the server's end closes (closing handshake, terminate after a
\* missed heartbeat, or a network drop); finalizeDisconnect removes the client.
ServerCloseEvent(k) ==
    /\ k \in DOMAIN conns
    /\ conns[k].sst \in {"open", "closing"}
    /\ LET closed == [conns EXCEPT ![k].sst = "closed", ![k].c2s = << >>]
       IN IF conns[k].sess = NoSession
          THEN conns' = closed /\ UNCHANGED sessions
          ELSE LET r == removeClient(sessions, closed, conns[k].sess, k, now)
               IN sessions' = r.ss /\ conns' = r.cs
    /\ UNCHANGED <<clockVars, mutVars, cl, view, wire, lastCleanupAt>>

\* one run of the transition timer of session i, which runs until destroySession
ServerTick(i) ==
    /\ i \in DOMAIN sessions
    /\ sessions[i].transitionTimer
    /\ LET r == transitionTimer(sessions, conns, i, now)
       IN sessions' = r.ss /\ conns' = r.cs
    /\ UNCHANGED <<clockVars, mutVars, cl, view, wire, lastCleanupAt>>

\* setInterval(cleanupExpiredSessions, CLEANUP_INTERVAL_MS)
Reaper ==
    /\ LET r == cleanupExpiredSessions(sessions, conns, now)
       IN sessions' = r.ss /\ conns' = r.cs
    /\ lastCleanupAt' = now
    /\ UNCHANGED <<clockVars, mutVars, cl, view, wire>>

(***************************************************************************)
(* SpecStore: the session store under one client that creates, joins and   *)
(* leaves sessions and loses connections.  The reaper may run late: a run *)
(* that is skipped between two events would have destroyed no more than    *)
(* the next run does.                                                      *)
(***************************************************************************)
StoreMaxClockSteps == 2
StoreMaxSessions == 1
StoreMaxConns == 2
StoreDeltas == {1, EMPTY_SESSION_TTL_MS}
StoreClients == {1}
StoreCodes == {"ABCDEF"}

StoreAdvance(d) == AdvanceClock(d, StoreMaxClockSteps) /\ UNCHANGED <<mutVars, netVars>>

InitStore == InitClock /\ states = EmptyStates /\ InitNet

NextStore ==
    \/ \E d \in StoreDeltas : StoreAdvance(d)
    \/ Reaper
    \/ \E c \in StoreClients, code \in StoreCodes :
          Len(sessions) < StoreMaxSessions /\ Len(conns) < StoreMaxConns
          /\ UserCreateSession(c, code)
    \/ \E c \in StoreClients, code \in StoreCodes :
          Len(conns) < StoreMaxConns /\ UserJoinSession(c, code)
    \/ \E c \in StoreClients : UserLeaveSession(c)
    \/ \E c \in StoreClients : Len(conns) < StoreMaxConns /\ ReconnectTimerFires(c)
    \/ \E k \in 1..StoreMaxConns : ClientOpen(k)
    \/ \E k \in 1..StoreMaxConns : ClientReceive(k)
    \/ \E k \in 1..StoreMaxConns : ClientCloseEvent(k)
    \/ \E k \in 1..StoreMaxConns : ServerAccept(k)
    \/ \E k \in 1..StoreMaxConns : ServerReceive(k)
    \/ \E k \in 1..StoreMaxConns : ServerCloseEvent(k)

SpecStore == InitStore /\ [][NextStore]_vars

\* C7 as stated: getSession never returns a session that has had no connection
\* for longer than EMPTY_SESSION_TTL_MS, here even with the reaper on schedule
\* (its last run less than CLEANUP_INTERVAL_MS ago).
C7_AbsentOnceExpired ==
    \A code \in StoreCodes :
        LET i == getSession(sessions, code)
        IN (i # NoSession /\ now - lastCleanupAt < CLEANUP_INTERVAL_MS)
           => ~(/\ sessions[i].clients = {}
                /\ sessions[i].emptySince # NoTime
                /\ now - sessions[i].emptySince > EMPTY_SESSION_TTL_MS)

\* C7 amended: a session that had no connection for longer than
\* EMPTY_SESSION_TTL_MS when the reaper last ran is not returned by getSession:
\* every session getSession returns was not yet expired at that run.
C7_AbsentAfterReaperRun ==
    \A code \in StoreCodes :
        LET i == getSession(sessions, code)
        IN i # NoSession
           => ~(/\ sessions[i].emptySince # NoTime
                /\ lastCleanupAt - sessions[i].emptySince > EMPTY_SESSION_TTL_MS)

\* a session that was destroyed for being empty and is no longer found
C7_Witness ==
    \E i \in DOMAIN sessions :
        /\ ~sessions[i].live
        /\ sessions[i].clients = {}
        /\ sessions[i].emptySince # NoTime
        /\ lastCleanupAt - sessions[i].emptySince > EMPTY_SESSION_TTL_MS
        /\ getSession(sessions, sessions[i].code) = NoSession

(***************************************************************************)
(* SpecRetry: one client with its session: connections are lost, acks time *)
(* out, the client reconnects and replays, leaves and joins again.         *)
(* SpecExpiry: the same with a clock and the reaper, which may destroy the *)
(* session while the client is away.                                       *)
(***************************************************************************)
RetryMaxConns == 2
RetryMaxMutations == 2
ExpiryMaxConns == 2
ExpiryMaxMutations == 1
ExpiryMaxClockSteps == 1
ExpiryDeltas == {EMPTY_SESSION_TTL_MS + 1}
RetryClients == {1}
RetryCodes == {"ABCDEF"}
RetryMutations == {SetSpawnTimerMsg(1, SAPLING_MATURE_MS, NoString)}

\* the steps of the client, the network and the connection handler with at
\* most maxConns sockets and maxMutations user actions
RetrySteps(maxConns, maxMutations) ==
    \/ \E c \in RetryClients, code \in RetryCodes :
          Len(sessions) < 1 /\ Len(conns) < maxConns /\ UserCreateSession(c, code)
    \/ \E c \in RetryClients, code \in RetryCodes :
          Len(conns) < maxConns /\ UserJoinSession(c, code)
    \/ \E c \in RetryClients : UserLeaveSession(c)
    \/ \E c \in RetryClients, m \in RetryMutations :
          cl[c].issued < maxMutations /\ cl[c].status # "disconnected"
          /\ UserMutate(c, m)
    \/ \E c \in RetryClients, j \in 1..maxMutations : AckTimeout(c, j)
    \/ \E c \in RetryClients : Len(conns) < maxConns /\ ReconnectTimerFires(c)
    \/ \E k \in 1..maxConns : ClientOpen(k)
    \/ \E k \in 1..maxConns : ClientReceive(k)
    \/ \E k \in 1..maxConns : ClientCloseEvent(k)
    \/ \E k \in 1..maxConns : ServerAccept(k)
    \/ \E k \in 1..maxConns : ServerReceive(k)
    \/ \E k \in 1..maxConns : ServerCloseEvent(k)

InitRetry == InitClock /\ states = EmptyStates /\ InitNet

NextRetry == RetrySteps(RetryMaxConns, RetryMaxMutations)

SpecRetry == InitRetry /\ [][NextRetry]_vars

ExpiryAdvance(d) == AdvanceClock(d, ExpiryMaxClockSteps) /\ UNCHANGED <<mutVars, netVars>>

NextExpiry ==
    \/ \E d \in ExpiryDeltas : ExpiryAdvance(d)
    \/ Reaper
    \/ RetrySteps(ExpiryMaxConns, ExpiryMaxMutations)

SpecExpiry == InitRetry /\ [][NextExpiry]_vars

(***************************************************************************)
(* Properties of the delivery layer.                                       *)
(***************************************************************************)
Range(seq) == {seq[j] : j \in DOMAIN seq}

\* the mutation frames client c has sent, all of them and those on socket k
MutationsSent(c) == SelectSeq(wire[c], LAMBDA e : e.uid # 0)
MutationsSentOn(c, k) == SelectSeq(wire[c], LAMBDA e : e.uid # 0 /\ e.conn = k)

PendingUids(rec) == {rec.pending[j].msg.uid : j \in DOMAIN rec.pending}

\* the mutations that were sent on an earlier socket and still pending when
\* socket k opened
Carried(c, k) ==
    {u \in Range(conns[k].atOpen) : \E e \in Range(wire[c]) : e.uid = u /\ e.conn < k}

\* C2: a mutation that was sent and still unacknowledged when the connection
\* dropped is transmitted on the next connection at most once, and exactly once
\* when the snapshot has arrived, under a msgId above every msgId used before,
\* and no mutation the user issued on the new connection is transmitted before it.
C2_ReplayedOnceBeforeNew ==
    \A c \in RetryClients : \A k \in DOMAIN conns :
        conns[k].owner = c =>
            \A u \in Carried(c, k) :
                LET sent == MutationsSent(c)
                    mine == {p \in DOMAIN sent : sent[p].conn = k /\ sent[p].uid = u}
                IN /\ Cardinality(mine) <= 1
                   /\ (cl[c].wsRef = k /\ cl[c].snapshotReceived) => Cardinality(mine) = 1
                   /\ \A p \in mine : \A q \in DOMAIN sent :
                        /\ q < p => sent[q].msgId < sent[p].msgId
                        /\ (q < p /\ sent[q].conn = k) => sent[q].bornOn # k

\* C9: on the socket of wsRef, while mutations that were pending when it opened
\* wait for the snapshot, no mutation is sent; once the snapshot has arrived the
\* mutations sent on the socket begin with those that were pending when it
\* opened, in their order, and every pending entry has its timer armed for
\* this socket while the socket is open.
C9_ReplayFirstInOrder ==
    \A c \in RetryClients :
        LET k == cl[c].wsRef
        IN k # NoConn =>
            LET sentUids == [p \in DOMAIN MutationsSentOn(c, k) |-> MutationsSentOn(c, k)[p].uid]
                atOpen == conns[k].atOpen
            IN IF cl[c].snapshotReceived
               THEN /\ Len(sentUids) >= Len(atOpen)
                    /\ SubSeq(sentUids, 1, Len(atOpen)) = atOpen
                    /\ conns[k].cst = "open" =>
                          \A j \in DOMAIN cl[c].pending :
                              cl[c].pending[j].timer /\ cl[c].pending[j].ws = k
               ELSE atOpen # << >> => sentUids = << >>

PendingIds(rec) == {rec.pending[j].id : j \in DOMAIN rec.pending}

\* client c's handler has received an ack in this step
AckReceived(c) == Len(cl'[c].ackLog) = Len(cl[c].ackLog) + 1

StrictlyIncreasingIds(sent) ==
    \A p, q \in DOMAIN sent : p < q => sent[p].msgId < sent[q].msgId

C8_FreshIds ==
    \A c \in RetryClients :
        /\ StrictlyIncreasingIds(MutationsSent(c))
        /\ \A e \in Range(MutationsSent(c)) : e.msgId < cl[c].msgIdCounter
        /\ \A p, q \in DOMAIN cl[c].pending : p < q => cl[c].pending[p].id < cl[c].pending[q].id

C8_AckOfOtherIdRemovesNothing ==
    \A c \in RetryClients :
        AckReceived(c) =>
            LET id == cl'[c].ackLog[Len(cl'[c].ackLog)]
            IN IF id \in PendingIds(cl[c])
               THEN PendingIds(cl'[c]) = PendingIds(cl[c]) \ {id}
               ELSE cl'[c].pending = cl[c].pending

\* C8: the msgIds of the mutation frames a client sends, first sends and
\* replays alike, are strictly increasing and below the counter, so no replay
\* reuses a msgId; and an ack removes the pending entry with its msgId and no
\* other, so an ack for a msgId that a replay has superseded removes nothing.
C8_MsgIdsIncreaseAndStaleAcksIgnored ==
    []C8_FreshIds /\ [][C8_AckOfOtherIdRemovesNothing]_vars

\* an ack has arrived for the msgId a mutation was first sent under while the
\* mutation is pending under the larger msgId its replay gave it
C8_Witness ==
    \E c \in RetryClients : \E e \in Range(MutationsSent(c)) :
        /\ e.msgId \in Range(cl[c].ackLog)
        /\ \E j \in DOMAIN cl[c].pending :
              cl[c].pending[j].msg.uid = e.uid /\ cl[c].pending[j].id > e.msgId

\* the mutations sent on socket k for which no ack has been received
UnackedOn(c, k) ==
    {e.uid : e \in {x \in Range(MutationsSentOn(c, k)) :
                       \A y \in Range(MutationsSentOn(c, k)) :
                           y.uid = x.uid => y.msgId \notin Range(cl[c].ackLog)}}

NoAckTwice(c) ==
    \A p, q \in DOMAIN cl[c].ackLog : p # q => cl[c].ackLog[p] # cl[c].ackLog[q]

\* wsRef lets go of socket k in this step
LetsGo(c, k) == cl[c].wsRef = k /\ cl'[c].wsRef # k

\* C3 as stated: no msgId is acknowledged twice, and whenever the client's
\* socket is closed or given up, the mutations sent on it that have not been
\* acknowledged are in the pending queue.
C3_AckedOrPending ==
    /\ [](\A c \in RetryClients : NoAckTwice(c))
    /\ [][\A c \in RetryClients : \A k \in DOMAIN conns :
            LetsGo(c, k) => UnackedOn(c, k) \subseteq PendingUids(cl'[c])]_vars

\* C3 amended: no msgId is acknowledged twice, and whenever the client's socket
\* closes and the client schedules a reconnect, the mutations sent on it that
\* have not been acknowledged are in the pending queue.
C3_AckedOrPendingForReconnect ==
    /\ [](\A c \in RetryClients : NoAckTwice(c))
    /\ [][\A c \in RetryClients : \A k \in DOMAIN conns :
            (LetsGo(c, k) /\ cl'[c].reconnectTimer)
                => UnackedOn(c, k) \subseteq PendingUids(cl'[c])]_vars

\* the socket closed under a sent mutation that has no ack; the mutation is
\* queued and the reconnect is scheduled
C3_Witness ==
    \E c \in RetryClients : \E k \in DOMAIN conns :
        /\ conns[k].owner = c /\ conns[k].cst = "closed"
        /\ cl[c].wsRef = NoConn /\ cl[c].reconnectTimer
        /\ UnackedOn(c, k) # {}
        /\ UnackedOn(c, k) \subseteq PendingUids(cl[c])

\* the ack timeout of a pending entry of client c closes its socket in this step
AckTimeoutStep(c) == \E j \in DOMAIN cl[c].pending : AckTimeout(c, j)

\* the close event of a socket that an ack timeout closed reaches onclose
CloseAfterAckTimeout(c, k) ==
    conns[k].ackTimedOut /\ cl[c].wsRef = k /\ ClientCloseEvent(k)

\* C10 as stated: an ack timeout closes the socket and removes nothing from the
\* pending queue, and the close event that follows leaves every mutation in
\* the queue and schedules a reconnect.
C10_TimeoutKeepsMutation ==
    /\ [][\A c \in RetryClients : AckTimeoutStep(c) =>
            /\ conns'[cl[c].wsRef].cst = "closing"
            /\ PendingUids(cl'[c]) = PendingUids(cl[c])]_vars
    /\ [][\A c \in RetryClients : \A k \in DOMAIN conns :
            CloseAfterAckTimeout(c, k) =>
                /\ PendingUids(cl'[c]) = PendingUids(cl[c])
                /\ cl'[c].reconnectTimer]_vars

\* C10 amended: an ack timeout closes the socket and removes nothing from the
\* pending queue, and the close event that follows leaves every mutation in
\* the queue and schedules a reconnect unless the last error received from the
\* server is one of FATAL_ERRORS.
C10_TimeoutKeepsMutationUnlessFatal ==
    /\ [][\A c \in RetryClients : AckTimeoutStep(c) =>
            /\ conns'[cl[c].wsRef].cst = "closing"
            /\ PendingUids(cl'[c]) = PendingUids(cl[c])]_vars
    /\ [][\A c \in RetryClients : \A k \in DOMAIN conns :
            (CloseAfterAckTimeout(c, k) /\ cl[c].lastServerError \notin FATAL_ERRORS) =>
                /\ PendingUids(cl'[c]) = PendingUids(cl[c])
                /\ cl'[c].reconnectTimer]_vars

\* an ack timeout closed the socket, the socket has closed, the mutation is
\* still queued and the reconnect is scheduled
C10_Witness ==
    \E c \in RetryClients : \E k \in DOMAIN conns :
        /\ conns[k].owner = c /\ conns[k].ackTimedOut /\ conns[k].cst = "closed"
        /\ cl[c].wsRef = NoConn /\ cl[c].reconnectTimer
        /\ cl[c].pending # << >>

(***************************************************************************)
(* SpecSync: two clients and up to two sessions.  Client 1 may record a     *)
(* tree before it is in a session, so that the session it creates is       *)
(* seeded with its view, and sends up to SyncMaxMutations mutations;       *)
(* client 2 watches.                                                       *)
(***************************************************************************)
SyncMaxConns == 2
SyncMaxMutations == 1
SyncMutations ==
    { SetSpawnTimerMsg(1, SAPLING_MATURE_MS, NoString),
      SetTreeInfoMsg(1, [treeType |-> "oak", treeHint |-> "",
                         treeExactLocation |-> NoString, treeHealth |-> 50]),
      UpdateTreeFieldsMsg(1, ("treeHint" :> "Close to a mine")),
      UpdateHealthMsg(1, 75),
      MarkDeadMsg(1),
      ClearWorldMsg(1) }

SyncSeeds == {m \in SyncMutations : m.type = "setTreeInfo"}
SyncActors == {1}

InitSync == InitClock /\ states = EmptyStates /\ InitNet

NextSync ==
    \/ \E c \in ClientIds, code \in SessionCodes :
          Len(conns) < SyncMaxConns /\ UserCreateSession(c, code)
    \/ \E c \in ClientIds, code \in SessionCodes :
          Len(conns) < SyncMaxConns /\ UserJoinSession(c, code)
    \/ \E c \in SyncActors, m \in SyncSeeds :
          cl[c].status = "disconnected" /\ view[c] = EmptyStates /\ UserMutate(c, m)
    \/ \E c \in SyncActors, m \in SyncMutations :
          cl[c].issued < SyncMaxMutations /\ cl[c].status # "disconnected"
          /\ UserMutate(c, m)
    \/ \E k \in 1..SyncMaxConns : ClientOpen(k)
    \/ \E k \in 1..SyncMaxConns : ClientReceive(k)
    \/ \E k \in 1..SyncMaxConns : ClientCloseEvent(k)
    \/ \E k \in 1..SyncMaxConns : ServerAccept(k)
    \/ \E k \in 1..SyncMaxConns : ServerReceive(k)
    \/ \E k \in 1..SyncMaxConns : ServerCloseEvent(k)

SpecSync == InitSync /\ [][NextSync]_vars

(***************************************************************************)
(* Properties of the synchronisation.                                      *)
(***************************************************************************)
\* client c is connected: its socket is open at both ends, registered in a
\* stored session, and the snapshot has arrived
Connected(c) ==
    LET k == cl[c].wsRef
    IN /\ cl[c].status = "connected" /\ cl[c].snapshotReceived
       /\ k # NoConn
       /\ conns[k].cst = "open" /\ conns[k].sst = "open"
       /\ conns[k].sess # NoSession
       /\ sessions[conns[k].sess].live
       /\ k \in sessions[conns[k].sess].clients

\* every client that is in a session is connected, nothing is in flight,
\* nothing waits for an ack and no transition is due
Quiescent ==
    /\ \A k \in DOMAIN conns :
          /\ conns[k].s2c = << >> /\ conns[k].c2s = << >>
          /\ conns[k].sst = "closed" \/ cl[conns[k].owner].wsRef = k
    /\ \A c \in ClientIds :
          /\ cl[c].status # "disconnected" => Connected(c)
          /\ cl[c].pending = << >> /\ applyTransitions(view[c], now) = view[c]
    /\ \A i \in DOMAIN sessions :
          applyTransitions(sessions[i].worldStates, now) = sessions[i].worldStates

\* C4: when nothing is in flight and no transition is due, the view of every
\* connected client has the active worlds of its session's worldStates.
C4_ViewsConverge ==
    Quiescent =>
        \A c \in ClientIds :
            Connected(c) =>
                ActiveWorlds(view[c])
                    = ActiveWorlds(sessions[conns[cl[c].wsRef].sess].worldStates)

MutationTypes ==
    {"setSpawnTimer", "setTreeInfo", "updateTreeFields", "updateHealth", "markDead", "clearWorld"}

\* the frame is a valid mutation that handleMessage passes to updateWorldState
StateChanging(session, raw) ==
    /\ raw.type \in MutationTypes
    /\ validateMessage(raw) = NoError
    /\ raw.type \in {"updateTreeFields", "updateHealth"}
          => HasEntry(session.worldStates, raw.worldId)

\* the frames the server queues for socket x in this step
QueuedFor(x) == SubSeq(conns'[x].s2c, Len(conns[x].s2c) + 1, Len(conns'[x].s2c))

C5_Broadcast ==
    \A k \in DOMAIN conns :
        (/\ ServerReceive(k)
         /\ k \in sessions[conns[k].sess].clients
         /\ StateChanging(sessions[conns[k].sess], Head(conns[k].c2s)))
        => LET i == conns[k].sess
               raw == Head(conns[k].c2s)
               w == raw.worldId
               isNull == raw.type = "clearWorld"
               update == WorldUpdateMsg(w, isNull,
                            IF isNull THEN BlankState ELSE sessions'[i].worldStates[w])
           IN /\ isNull <=> ~HasEntry(sessions'[i].worldStates, w)
              /\ \A x \in DOMAIN conns :
                    /\ Len(conns'[x].s2c) >= Len(conns[x].s2c)
                    /\ QueuedFor(x) =
                          IF x \in sessions[i].clients /\ Reaches(conns[x])
                          THEN IF x = k /\ raw.msgId # Undefined
                               THEN <<update, AckMsg(raw.msgId)>>
                               ELSE <<update>>
                          ELSE << >>
              /\ raw.type = "setSpawnTimer" =>
                    /\ update.state.treeStatus = "none"
                    /\ update.state.nextSpawnTarget = now + raw.msFromNow
                    /\ update.state.treeType = NoString
                    /\ ~IsDefined(update.state.treeHealth)

\* C5: when the server handles a valid state-changing mutation of a client of
\* a session, it queues one worldUpdate with the world's resulting state (null
\* for clearWorld) for every socket of that session that is open, the sender's
\* included, and nothing for any other socket; for setSpawnTimer the state has
\* treeStatus none, nextSpawnTarget = now + msFromNow and no tree.
C5_DeltaToSessionOnly == [][C5_Broadcast]_vars

\* two clients of one session have each been sent the worldUpdate of a
\* mutation, and its sender the ack behind it
C5_Witness ==
    \E k, x \in DOMAIN conns :
        /\ k # x /\ conns[k].sess # NoSession /\ conns[k].sess = conns[x].sess
        /\ \E p \in DOMAIN conns[k].s2c, q \in DOMAIN conns[x].s2c :
              /\ conns[k].s2c[p].type = "worldUpdate"
              /\ conns[x].s2c[q] = conns[k].s2c[p]
              /\ p < Len(conns[k].s2c) /\ conns[k].s2c[p + 1].type = "ack"

(***************************************************************************)
(* SpecBackoff: one client in its session whose connections fail, before   *)
(* or after they open, and the reconnect loop that follows.  An attempt    *)
(* fails before it reaches the server (the server is out of reach) or      *)
(* after the socket has opened, and the server has seen the end of a lost  *)
(* connection by the time the reconnect timer (1 s or more) fires.         *)
(***************************************************************************)
BackoffMaxConns == 12
BackoffMaxOpens == 2

ServerSawCloses ==
    \A j \in DOMAIN conns : conns[j].cst = "closed" => conns[j].sst = "closed"

NextBackoff ==
    \/ \E c \in RetryClients, code \in RetryCodes :
          Len(sessions) < 1 /\ UserCreateSession(c, code)
    \/ \E c \in RetryClients :
          Len(conns) < BackoffMaxConns /\ ServerSawCloses /\ ReconnectTimerFires(c)
    \/ \E k \in 1..BackoffMaxConns :
          /\ Cardinality({j \in DOMAIN conns : conns[j].wasOpen}) < BackoffMaxOpens
          /\ ClientOpen(k)
    \/ \E k \in 1..BackoffMaxConns : ClientReceive(k)
    \/ \E k \in 1..BackoffMaxConns :
          /\ k \in DOMAIN conns
          /\ conns[k].sst = "pending" \/ conns[k].cst = "open"
          /\ ClientCloseEvent(k)
    \/ \E k \in 1..BackoffMaxConns : ServerAccept(k)
    \/ \E k \in 1..BackoffMaxConns : ServerReceive(k)
    \/ \E k \in 1..BackoffMaxConns : ServerCloseEvent(k)

SpecBackoff == InitRetry /\ [][NextBackoff]_vars

\* the delays of the ten attempts, in ms
BackoffSchedule == <<1000, 2000, 4000, 8000, 16000, 30000, 30000, 30000, 30000, 30000>>

\* the sockets client c has created since its last socket that opened (since
\* its first socket, if none opened): its consecutive reconnect attempts
AttemptsSinceOpen(c) ==
    LET own == {j \in DOMAIN conns : conns[j].owner = c}
        opened == {j \in own : conns[j].wasOpen}
        base == IF opened = {} THEN CHOOSE j \in own : \A x \in own : j <= x
                ELSE CHOOSE j \in opened : \A x \in opened : x <= j
    IN Cardinality({j \in own : j > base})

C11_Bounded ==
    \A c \in RetryClients :
        /\ AttemptsSinceOpen(c) <= 10
        /\ (cl[c].status = "disconnected" /\ cl[c].error = "Unable to reconnect.")
              => ~cl[c].reconnectTimer /\ cl[c].wsRef = NoConn /\ cl[c].code # NoCode

C11_Close ==
    \A c \in RetryClients, k \in DOMAIN conns :
        (/\ ClientCloseEvent(k)
         /\ cl[c].wsRef = k
         /\ ~cl[c].intentionalClose
         /\ cl[c].lastServerError \notin {"Session not found.", "Session is full."})
        => LET n == AttemptsSinceOpen(c)
           IN IF n < 10
              THEN /\ cl'[c].reconnectTimer
                   /\ cl'[c].reconnectDelay = BackoffSchedule[n + 1]
                   /\ cl'[c].status = "connecting"
              ELSE /\ ~cl'[c].reconnectTimer
                   /\ cl'[c].status = "disconnected"
                   /\ cl'[c].error = "Unable to reconnect."
                   /\ cl'[c].code = cl[c].code /\ cl[c].code # NoCode

\* C11: when the client's socket closes without a fatal rejection and n
\* reconnect attempts were made since a socket last opened, the client arms the
\* reconnect timer with the (n+1)-th delay of 1, 2, 4, 8, 16, 30, 30, 30, 30,
\* 30 s while n < 10, and at n = 10 ends disconnected with error 'Unable to
\* reconnect.', keeps the session code and arms no timer; there are never more
\* than 10 attempts without an open.
C11_BackoffThenGiveUp == []C11_Bounded /\ [][C11_Close]_vars

\* after a socket that had opened was lost, ten attempts failed and the client
\* gave up
C11_Witness ==
    \E c \in RetryClients :
        /\ cl[c].status = "disconnected" /\ cl[c].error = "Unable to reconnect."
        /\ cl[c].code # NoCode /\ ~cl[c].reconnectTimer
        /\ AttemptsSinceOpen(c) = 10
        /\ \E j \in DOMAIN conns : conns[j].wasOpen

(***************************************************************************)
(* SpecAdmit: admission to sessions.  Session ABCDEF starts one short of   *)
(* full: 999 other browsers are connected to it and stay connected; the    *)
(* frames sent to them are not followed.  A client joins it, creates       *)
(* session GHJKLM, leaves and loses connections, and the reaper may        *)
(* destroy a session that was left empty.                                  *)
(***************************************************************************)
AdmitMaxConns == 3
AdmitMaxClockSteps == 1

Crowd == (MAX_CLIENTS_PER_SESSION + 1) .. (2 * MAX_CLIENTS_PER_SESSION - 1)

InitAdmit ==
    /\ InitClock /\ states = EmptyStates
    /\ sessions = << [NewSession("ABCDEF", 0) EXCEPT !.clients = Crowd,
                                                     !.emptySince = NoTime] >>
    /\ conns = << >>
    /\ cl = [c \in ClientIds |-> InitialClient]
    /\ view = [c \in ClientIds |-> EmptyStates]
    /\ wire = [c \in ClientIds |-> << >>]
    /\ lastCleanupAt = 0

AdmitAdvance(d) == AdvanceClock(d, AdmitMaxClockSteps) /\ UNCHANGED <<mutVars, netVars>>

NextAdmit ==
    \/ \E d \in ExpiryDeltas : AdmitAdvance(d)
    \/ Reaper
    \/ \E c \in RetryClients :
          Len(conns) < AdmitMaxConns /\ UserCreateSession(c, "GHJKLM")
    \/ \E c \in RetryClients, code \in SessionCodes :
          Len(conns) < AdmitMaxConns /\ UserJoinSession(c, code)
    \/ \E c \in RetryClients : UserLeaveSession(c)
    \/ \E c \in RetryClients : Len(conns) < AdmitMaxConns /\ ReconnectTimerFires(c)
    \/ \E k \in 1..AdmitMaxConns : ClientOpen(k)
    \/ \E k \in 1..AdmitMaxConns : ClientReceive(k)
    \/ \E k \in 1..AdmitMaxConns : ClientCloseEvent(k)
    \/ \E k \in 1..AdmitMaxConns : ServerAccept(k)
    \/ \E k \in 1..AdmitMaxConns : ServerReceive(k)
    \/ \E k \in 1..AdmitMaxConns : ServerCloseEvent(k)

SpecAdmit == InitAdmit /\ [][NextAdmit]_vars

C12_Close ==
    \A c \in ClientIds, k \in DOMAIN conns :
        (ClientCloseEvent(k) /\ cl[c].wsRef = k /\ ~cl[c].intentionalClose)
        => IF conns[k].lastError \in {"Session not found.", "Session is full."}
           THEN /\ ~cl'[c].reconnectTimer
                /\ cl'[c].code = NoCode /\ cl'[c].storedCode = NoCode
           ELSE cl[c].reconnectAttempt < 10 => cl'[c].reconnectTimer

\* C12: when the socket of a client closes without the client having closed
\* it, then if the last error the server sent on it is 'Session not found.' or
\* 'Session is full.' the client arms no reconnect timer and clears its code in
\* memory and in storage, and otherwise, with attempts left, it arms the
\* reconnect timer.
C12_FatalOrRetry == [][C12_Close]_vars

(***************************************************************************)
(* SpecServe: the server's message handler under any input.  Client 1      *)
(* creates a session and client 2 joins it; on the socket of client 1      *)
(* arrive, one at a time, pings, mutations with and without msgId, frames  *)
(* that fail the size check, the parser or the validation, bulk seeds with *)
(* invalid entries, and more frames than the rate limit allows: in each    *)
(* window of the rate limit a few frames of any kind, then pings, and once *)
(* the limit is reached frames of any kind again.  No connection is lost.  *)
(***************************************************************************)
ServeMaxConns == 2
ServeMaxMixed == 2
ServeMaxClockSteps == 1
ServeDeltas == {RATE_LIMIT_WINDOW_MS + 1}

OakState == [BlankState EXCEPT !.treeStatus = "alive", !.treeType = "oak",
                               !.treeSetAt = 0, !.matureAt = 0]

\* payloads of initializeState: a valid active entry beside an entry with an
\* unknown world id and a malformed one; a valid entry beside a blank one; and
\* batches of 200 and of 201 entries
SeedMixed ==
    (1 :> OakState) @@ (2 :> [OakState EXCEPT !.treeStatus = "ancient"])
                    @@ (9999 :> OakState)
SeedBlank == (1 :> BlankState) @@ (2 :> [OakState EXCEPT !.treeHealth = 50])
SeedBatch(n) == [w \in 1..n |-> OakState]

ServeFrames ==
    { [type |-> "ping"],
      [type |-> "markDead", worldId |-> 1, msgId |-> 7],
      [type |-> "updateHealth", worldId |-> 1, health |-> 50, msgId |-> Undefined],
      [type |-> "updateHealth", worldId |-> 2, health |-> 50, msgId |-> 8],
      [type |-> "updateTreeFields", worldId |-> 2,
       fields |-> ("treeType" :> "oak"), msgId |-> 11],
      [type |-> "markDead", worldId |-> 9999, msgId |-> 9],
      [type |-> "clearWorld", worldId |-> 1, msgId |-> 0],
      [type |-> "markDead", worldId |-> 2, msgId |-> 10,
       length |-> MAX_MESSAGE_SIZE + 1, parses |-> TRUE],
      [type |-> "unparsable", length |-> 20, parses |-> FALSE],
      [type |-> "initializeState", worlds |-> SeedMixed],
      [type |-> "initializeState", worlds |-> SeedBlank],
      [type |-> "initializeState", worlds |-> SeedBatch(MAX_WORLDS_INITIALIZE)],
      [type |-> "initializeState", worlds |-> SeedBatch(MAX_WORLDS_INITIALIZE + 1)] }

\* nothing is on its way between the server and the browsers
Idle == \A j \in DOMAIN conns : conns[j].c2s = << >> /\ conns[j].s2c = << >>

ServeAdvance(d) == AdvanceClock(d, ServeMaxClockSteps) /\ UNCHANGED <<mutVars, netVars>>

NextServe ==
    \/ \E d \in ServeDeltas : ServeAdvance(d)
    \/ Len(conns) < ServeMaxConns /\ sessions = << >> /\ UserCreateSession(1, "ABCDEF")
    \/ Len(conns) < ServeMaxConns /\ UserJoinSession(2, "ABCDEF")
    \/ \E k \in 1..ServeMaxConns, frame \in ServeFrames :
          /\ Idle
          /\ k \in DOMAIN conns /\ conns[k].owner = 1
          /\ conns[k].rateCount <= RATE_LIMIT_MAX
          /\ \/ frame.type = "ping"
             \/ conns[k].rateCount < ServeMaxMixed
             \/ conns[k].rateCount >= RATE_LIMIT_MAX
          /\ PeerSend(k, frame)
    \/ \E k \in 1..ServeMaxConns : ClientOpen(k)
    \/ \E k \in 1..ServeMaxConns : ClientReceive(k)
    \/ \E k \in 1..ServeMaxConns : ServerAccept(k)
    \/ \E k \in 1..ServeMaxConns : ServerReceive(k)

SpecServe == InitRetry /\ [][NextServe]_vars

(***************************************************************************)
(* Properties of the message handler.                                      *)
(***************************************************************************)
Acks(frames) == {j \in DOMAIN frames : frames[j].type = "ack"}
Errors(frames) == {j \in DOMAIN frames : frames[j].type = "error"}

\* socket k is registered in its session and the server handles its next frame
Handles(k) ==
    /\ ServerReceive(k)
    /\ k \in sessions[conns[k].sess].clients

\* C13 as stated: a mutation with a msgId that the server does not answer with
\* an error is answered with the worldUpdate of its world and then one ack with
\* its msgId; no other frame is acknowledged, and no other socket gets an ack.
C13_AckAfterUpdate ==
    [][\A k \in DOMAIN conns :
          Handles(k) =>
             LET raw == Head(conns[k].c2s)
                 out == QueuedFor(k)
             IN /\ \A x \in DOMAIN conns \ {k} : Acks(QueuedFor(x)) = {}
                /\ IF /\ raw.type \in MutationTypes
                      /\ raw.msgId # Undefined
                      /\ Errors(out) = {}
                   THEN /\ Len(out) = 2
                        /\ out[1].type = "worldUpdate" /\ out[1].worldId = raw.worldId
                        /\ out[2] = AckMsg(raw.msgId)
                   ELSE Acks(out) = {}]_vars

\* C13 amended: a mutation with a msgId that the server does not answer with
\* an error is answered with one ack with its msgId, which follows the
\* worldUpdate of its world when the mutation is applied; updateTreeFields and
\* updateHealth for a world without an entry are acknowledged without a
\* worldUpdate.  No other frame is acknowledged, and no other socket gets an ack.
C13_AckAfterUpdateIfApplied ==
    [][\A k \in DOMAIN conns :
          Handles(k) =>
             LET raw == Head(conns[k].c2s)
                 out == QueuedFor(k)
                 applied == raw.type \in {"updateTreeFields", "updateHealth"}
                               => HasEntry(sessions[conns[k].sess].worldStates, raw.worldId)
             IN /\ \A x \in DOMAIN conns \ {k} : Acks(QueuedFor(x)) = {}
                /\ IF /\ raw.type \in MutationTypes
                      /\ raw.msgId # Undefined
                      /\ Errors(out) = {}
                   THEN IF applied
                        THEN /\ Len(out) = 2
                             /\ out[1].type = "worldUpdate" /\ out[1].worldId = raw.worldId
                             /\ out[2] = AckMsg(raw.msgId)
                        ELSE out = <<AckMsg(raw.msgId)>>
                   ELSE Acks(out) = {}]_vars

\* the sender of a mutation has been sent its worldUpdate and then the ack, and
\* the other client of the session the worldUpdate alone
C13_Witness ==
    \E k, x \in DOMAIN conns :
        /\ k # x
        /\ Len(conns[k].s2c) = 2
        /\ conns[k].s2c[1].type = "worldUpdate" /\ conns[k].s2c[2].type = "ack"
        /\ conns[x].s2c # << >>
        /\ conns[x].s2c[Len(conns[x].s2c)] = conns[k].s2c[1]


\* the entries of a seed that name a world of the game and hold a well-formed
\* state with a tree or a pending spawn
SeedKept(worlds) ==
    {w \in DOMAIN worlds :
        /\ w \in WorldIds
        /\ worlds[w].treeStatus \in {"none", "sapling", "mature", "alive", "dead"}
        /\ worlds[w].treeType \in TREE_TYPES \cup {NoString}
        /\ worlds[w].treeHealth \in VALID_HEALTH_VALUES \cup {Undefined}
        /\ (worlds[w].treeStatus # "none" \/ worlds[w].nextSpawnTarget # Undefined)}

\* C14: a bulk seed within the size and rate limits, sent to a session
\* without state, is answered with an error exactly when it has more than 200
\* entries; otherwise the session's worldStates becomes exactly the valid
\* active entries of the seed, with the states the seed gave them, and the
\* snapshot sent to a client that connects afterwards holds those entries.
C14_SeedKeepsValidEntries ==
    [][\A k \in DOMAIN conns :
          /\ (/\ Handles(k)
              /\ Head(conns[k].c2s).type = "initializeState"
              /\ FrameLength(Head(conns[k].c2s)) <= MAX_INIT_MESSAGE_SIZE
              /\ conns'[k].rateCount <= RATE_LIMIT_MAX
              /\ DOMAIN sessions[conns[k].sess].worldStates = {})
             => LET worlds == Head(conns[k].c2s).worlds
                    stored == sessions'[conns[k].sess].worldStates
                IN IF Cardinality(DOMAIN worlds) > MAX_WORLDS_INITIALIZE
                   THEN /\ QueuedFor(k) = <<ErrorMsg("Too many worlds in initializeState.")>>
                        /\ DOMAIN stored = {}
                   ELSE /\ QueuedFor(k) = << >>
                        /\ DOMAIN stored = SeedKept(worlds)
                        /\ \A w \in DOMAIN stored : stored[w] = worlds[w]
          /\ (ServerAccept(k) /\ conns'[k].sess # NoSession)
             => LET sent == QueuedFor(k)[1]
                    stored == sessions[conns'[k].sess].worldStates
                IN /\ sent.type = "snapshot"
                   /\ DOMAIN sent.worlds = DOMAIN stored
                   /\ \A w \in DOMAIN stored : sent.worlds[w] = stored[w]]_vars

\* a seed with an entry for an unknown world and a malformed entry was stored,
\* and the client that connected afterwards has been sent the snapshot with
\* the one valid entry
C14_Witness ==
    \E k \in DOMAIN conns :
        /\ conns[k].owner = 2
        /\ conns[k].s2c # << >>
        /\ conns[k].s2c[1] = SnapshotMsg((1 :> OakState))
        /\ sessions[1].worldStates = (1 :> OakState)


\* C15: a bulk seed that passes validation leaves worldStates as it is and is
\* answered with the error 'Session already has state.' when the session has
\* an entry for some world; when the session has none, worldStates becomes
\* the validated worlds of the seed and no error is sent.
C15_SeedOnlyWithoutState ==
    [][\A k \in DOMAIN conns :
          (/\ Handles(k)
           /\ Head(conns[k].c2s).type = "initializeState"
           /\ FrameLength(Head(conns[k].c2s)) <= MAX_INIT_MESSAGE_SIZE
           /\ conns'[k].rateCount <= RATE_LIMIT_MAX
           /\ Cardinality(DOMAIN Head(conns[k].c2s).worlds) <= MAX_WORLDS_INITIALIZE)
          => LET i == conns[k].sess
                 worlds == Head(conns[k].c2s).worlds
             IN IF DOMAIN sessions[i].worldStates # {}
                THEN /\ sessions'[i].worldStates = sessions[i].worldStates
                     /\ QueuedFor(k) = <<ErrorMsg("Session already has state.")>>
                ELSE /\ DOMAIN sessions'[i].worldStates = SeedKept(worlds)
                     /\ \A w \in SeedKept(worlds) : sessions'[i].worldStates[w] = worlds[w]
                     /\ Errors(QueuedFor(k)) = {}]_vars

\* a seed with other worlds was refused by a session that has state: the
\* sender holds the error and the session the state it had
C15_Witness ==
    \E k \in DOMAIN conns :
        /\ conns[k].s2c # << >>
        /\ conns[k].s2c[Len(conns[k].s2c)] = ErrorMsg("Session already has state.")
        /\ DOMAIN sessions[conns[k].sess].worldStates = {1}
        /\ sessions[conns[k].sess].worldStates[1].treeStatus = "dead"


\* the server takes the next frame of socket k, a client of its session
Consumes(k) ==
    /\ conns[k].sess # NoSession
    /\ k \in sessions[conns[k].sess].clients
    /\ conns[k].c2s # << >>
    /\ conns'[k].c2s = Tail(conns[k].c2s)

\* the frame is over the size limit of its type, or is the eleventh or later
\* of its window, or is no JSON, or fails the schema
Refused(k) ==
    LET raw == Head(conns[k].c2s)
    IN \/ raw.type # "initializeState" /\ FrameLength(raw) > MAX_MESSAGE_SIZE
       \/ raw.type = "initializeState" /\ FrameLength(raw) > MAX_INIT_MESSAGE_SIZE
       \/ /\ conns[k].rateStart # NoTime
          /\ now - conns[k].rateStart <= RATE_LIMIT_WINDOW_MS
          /\ conns[k].rateCount >= RATE_LIMIT_MAX
       \/ ~Parses(raw)
       \/ validateMessage(raw) # NoError

\* C16: a frame that fails the size check, the rate limit, parsing or
\* validation is answered with one error message to its sender and nothing
\* else: the store is unchanged, no other socket is sent anything, no ack is
\* sent, and the sender's connection stays open and registered.
C16_RefusedFrameHasNoEffect ==
    [][\A k \in DOMAIN conns :
          (Consumes(k) /\ Refused(k))
          => /\ Len(QueuedFor(k)) = 1
             /\ QueuedFor(k)[1].type = "error"
             /\ sessions' = sessions
             /\ \A x \in DOMAIN conns \ {k} : conns'[x] = conns[x]
             /\ conns'[k].sst = conns[k].sst
             /\ conns'[k].sess = conns[k].sess
             /\ k \in sessions'[conns[k].sess].clients]_vars

\* a sender over the rate limit holds the error and is still open and
\* registered, in a session that has state
C16_Witness ==
    \E k \in DOMAIN conns :
        /\ conns[k].s2c # << >>
        /\ conns[k].s2c[Len(conns[k].s2c)] = ErrorMsg("Rate limit exceeded.")
        /\ conns[k].sst = "open"
        /\ k \in sessions[conns[k].sess].clients
        /\ DOMAIN sessions[conns[k].sess].worldStates # {}


(***************************************************************************)
(* SpecCreate: createSession on a store that is two sessions short of      *)
(* MAX_SESSIONS, within the hour in which none of them expires.  The       *)
(* sessions of other browsers were created at time 0; generateCode returns *)
(* codes that are in the store and codes that are not.                     *)
(***************************************************************************)

\* the code generateCode builds from six bytes whose values are n's digits in
\* base 8, each a character of '23456789'
CodeOf(n) ==
    LET Char(p) == 2 + ((n \div (8 ^ p)) % 8)
    IN ToString(Char(5) * 100000 + Char(4) * 10000 + Char(3) * 1000
                + Char(2) * 100 + Char(1) * 10 + Char(0))

CreateCodes == {CodeOf(1), "ABCDEF", "GHJKLM"}

\* ten results of generateCode: the first n are one code, the rest another
CreateDraws ==
    {[a \in 1..10 |-> IF a <= n THEN x ELSE y] :
        n \in {0, 1, 9, 10}, x \in CreateCodes, y \in CreateCodes}

InitCreate ==
    /\ InitClock /\ states = EmptyStates
    /\ sessions = [n \in 1..(MAX_SESSIONS - 2) |-> NewSession(CodeOf(n), 0)]
    /\ conns = << >>
    /\ cl = [c \in ClientIds |-> InitialClient]
    /\ view = [c \in ClientIds |-> EmptyStates]
    /\ wire = [c \in ClientIds |-> << >>]
    /\ lastCleanupAt = 0

NextCreate ==
    \/ \E c \in ClientIds, draws \in CreateDraws : UserCreateSessionDrawn(c, draws)
    \/ \E c \in ClientIds : UserLeaveSession(c)

SpecCreate == InitCreate /\ [][NextCreate]_vars


\* the codes of the sessions in the store
StoredCodes(ss) == {ss[i].code : i \in LiveSessions(ss)}

\* C17: the store never holds more than MAX_SESSIONS sessions.  A call of
\* createSession on a full store returns the capacity error and leaves the
\* store as it is; on a store with room it takes the first of the ten
\* generated codes that is not in the store, adds an empty session under it
\* and leaves every other session as it is, and when all ten codes are in the
\* store it returns the generation error and leaves the store as it is.
\* (A call that leaves the caller as it was is a refusal repeated.)
C17_Create ==
    \A c \in ClientIds, draws \in CreateDraws :
        (cl'[c] # cl[c] /\ UserCreateSessionDrawn(c, draws)) =>
           LET free == {a \in 1..10 : draws[a] \notin StoredCodes(sessions)}
               first == CHOOSE a \in free : \A b \in free : a <= b
           IN IF getSessionCount(sessions) >= MAX_SESSIONS
              THEN /\ sessions' = sessions
                   /\ cl'[c].error = "Maximum number of active sessions reached. Try again later."
                   /\ cl'[c].status = "disconnected"
              ELSE IF free = {}
              THEN /\ sessions' = sessions
                   /\ cl'[c].error = "Failed to generate unique session code. Try again."
                   /\ cl'[c].status = "disconnected"
              ELSE /\ Len(sessions') = Len(sessions) + 1
                   /\ \A i \in DOMAIN sessions : sessions'[i] = sessions[i]
                   /\ sessions'[Len(sessions')] = NewSession(draws[first], now)
                   /\ cl'[c].code = draws[first]
                   /\ cl'[c].error = NoError

C17_CapacityAndUniqueCode ==
    /\ [](getSessionCount(sessions) <= MAX_SESSIONS)
    /\ [][C17_Create]_vars

\* the store is full, one client was refused for capacity and a client holds
\* the code of a session that createSession added
C17_Witness ==
    /\ getSessionCount(sessions) = MAX_SESSIONS
    /\ \E c \in ClientIds :
          cl[c].error = "Maximum number of active sessions reached. Try again later."
    /\ \E c \in ClientIds : cl[c].code \in {"ABCDEF", "GHJKLM"}


\* C18: no session has more than MAX_CLIENTS_PER_SESSION clients.  When the
\* connection handler runs for a socket whose session has that many, the
\* store is left as it is (client set and emptySince included), the socket is
\* sent the error 'Session is full.' and nothing else, no other socket is sent
\* anything, and the server closes the socket without registering it.
C18_Reject ==
    \A k \in DOMAIN conns :
        (/\ ServerAccept(k)
         /\ getSession(sessions, conns[k].code) # NoSession
         /\ Cardinality(sessions[getSession(sessions, conns[k].code)].clients)
               >= MAX_CLIENTS_PER_SESSION)
        => /\ sessions' = sessions
           /\ QueuedFor(k) = IF conns[k].cst \in {"connecting", "open"}
                             THEN <<ErrorMsg("Session is full.")>> ELSE << >>
           /\ \A x \in DOMAIN conns \ {k} : conns'[x] = conns[x]
           /\ conns'[k].sst = "closing"
           /\ conns'[k].sess = NoSession

C18_FullSessionRejects ==
    /\ [](\A i \in DOMAIN sessions :
             Cardinality(sessions[i].clients) <= MAX_CLIENTS_PER_SESSION)
    /\ [][C18_Reject]_vars

\* a session holds MAX_CLIENTS_PER_SESSION clients, among them an earlier
\* socket of the client whose later socket was refused with 'Session is full.'
C18_Witness ==
    \E i \in DOMAIN sessions, k, x \in DOMAIN conns :
        /\ Cardinality(sessions[i].clients) = MAX_CLIENTS_PER_SESSION
        /\ x \in sessions[i].clients
        /\ k \notin sessions[i].clients
        /\ conns[k].code = sessions[i].code
        /\ conns[k].sst = "closing"
        /\ conns[k].s2c = <<ErrorMsg("Session is full.")>>


(***************************************************************************)
(* SpecSnap: snapshots of a session whose worlds pass through every        *)
(* status.  Client 1 creates the session and sends spawn timers, tree      *)
(* reports and deaths; the clock runs to the transition times, the         *)
(* session's transition timer fires, and client 2 joins and leaves at any  *)
(* point.  No connection is lost.                                          *)
(***************************************************************************)
SnapMaxConns == 3
SnapMaxClockSteps == 2
SnapMaxFrames == 2
SnapDeltas == {SAPLING_MATURE_MS, DEAD_CLEAR_MS}

SnapFrames ==
    { WithMsgId(SetSpawnTimerMsg(1, SAPLING_MATURE_MS, NoString), Undefined),
      WithMsgId(MarkDeadMsg(1), Undefined),
      WithMsgId(MarkDeadMsg(2), Undefined),
      WithMsgId(ClearWorldMsg(2), Undefined) }

SnapAdvance(d) == AdvanceClock(d, SnapMaxClockSteps) /\ UNCHANGED <<mutVars, netVars>>

NextSnap ==
    \/ \E d \in SnapDeltas : SnapAdvance(d)
    \/ Len(conns) < SnapMaxConns /\ sessions = << >> /\ UserCreateSession(1, "ABCDEF")
    \/ Len(conns) < SnapMaxConns /\ UserJoinSession(2, "ABCDEF")
    \/ UserLeaveSession(2)
    \/ \E k \in 1..SnapMaxConns, frame \in SnapFrames :
          /\ Idle
          /\ k \in DOMAIN conns /\ conns[k].owner = 1
          /\ conns[k].rateCount < SnapMaxFrames
          /\ PeerSend(k, frame)
    \/ \E i \in 1..1 : ServerTick(i)
    \/ \E k \in 1..SnapMaxConns : ClientOpen(k)
    \/ \E k \in 1..SnapMaxConns : ClientReceive(k)
    \/ \E k \in 1..SnapMaxConns : ServerAccept(k)
    \/ \E k \in 1..SnapMaxConns : ServerReceive(k)

SpecSnap == InitRetry /\ [][NextSnap]_vars

\* C19: the snapshot the connection handler sends to the socket it registers
\* is its first frame and holds exactly the worlds of the session whose
\* treeStatus is not none or whose nextSpawnTarget is set, each with the state
\* the session holds for it.
C19_Accept ==
    \A k \in DOMAIN conns :
        (ServerAccept(k) /\ conns'[k].sess # NoSession /\ conns[k].cst \in {"connecting", "open"})
        => LET stored == sessions[conns'[k].sess].worldStates
               sent == QueuedFor(k)[1]
           IN /\ sent.type = "snapshot"
              /\ DOMAIN sent.worlds =
                    {w \in DOMAIN stored : \/ stored[w].treeStatus # "none"
                                           \/ stored[w].nextSpawnTarget # Undefined}
              /\ \A w \in DOMAIN sent.worlds : sent.worlds[w] = stored[w]
              /\ \A j \in 2..Len(QueuedFor(k)) : QueuedFor(k)[j].type # "snapshot"

C19_SnapshotIsActiveWorlds ==
    /\ [][C19_Accept]_vars
    /\ [](\A k \in DOMAIN conns : \A j \in DOMAIN conns[k].s2c :
             conns[k].s2c[j].type = "snapshot"
             => \A w \in DOMAIN conns[k].s2c[j].worlds :
                   \/ conns[k].s2c[j].worlds[w].treeStatus # "none"
                   \/ conns[k].s2c[j].worlds[w].nextSpawnTarget # Undefined)

\* the session holds a cleared entry for world 1 and a dead tree in world 2,
\* and a socket of client 2 holds the snapshot with world 2 alone
C19_Witness ==
    \E k \in DOMAIN conns :
        /\ conns[k].owner = 2
        /\ conns[k].sess = 1
        /\ DOMAIN sessions[1].worldStates = {1, 2}
        /\ sessions[1].worldStates[1] = BlankState
        /\ conns[k].s2c # << >>
        /\ conns[k].s2c[1].type = "snapshot"
        /\ DOMAIN conns[k].s2c[1].worlds = {2}
        /\ conns[k].s2c[1].worlds[2] = sessions[1].worldStates[2]


\* C20: in every state the mutators reach, markDead of any world at the
\* current time returns states in which the world has an entry with treeStatus
\* dead and deadAt equal to that time, also when the world had no entry; and
\* so it is after every markDead step.
C20_MarkDeadAlwaysDead ==
    /\ [](\A w \in WorldIds :
             LET next == applyMarkDead(states, w, now)
             IN /\ w \in DOMAIN next
                /\ next[w].treeStatus = "dead"
                /\ next[w].deadAt = now)
    /\ [][\A w \in WorldIds :
             MutMarkDead(w) => /\ w \in DOMAIN states'
                               /\ states'[w].treeStatus = "dead"
                               /\ states'[w].deadAt = now]_vars

\* at a time after 0 one world that had no tree and one that had a tree are
\* dead since that time
C20_Witness ==
    /\ now > 0
    /\ \E w, v \in DOMAIN states :
          /\ states[w].treeStatus = "dead" /\ states[w].deadAt = now
          /\ states[w].treeType = NoString /\ states[w].treeSetAt = Undefined
          /\ states[v].treeStatus = "dead" /\ states[v].deadAt = now
          /\ states[v].treeType # NoString


\* C21: after markDead the world's entry has no treeHealth, no
\* nextSpawnTarget and no spawnSetAt, whatever they were before.
C21_MarkDeadClearsHealthAndSpawn ==
    [][\A w \in WorldIds :
          MutMarkDead(w) => /\ states'[w].treeHealth = Undefined
                            /\ states'[w].nextSpawnTarget = Undefined
                            /\ states'[w].spawnSetAt = Undefined]_vars


\* C22: setSpawnTimer writes the entry {treeStatus none, nextSpawnTarget =
\* now + msFromNow, spawnSetAt = now, treeHint = the hint given} and nothing
\* else, whatever entry the world had (a tree reported by setTreeInfo
\* included); no other world changes.
C22_SpawnTimerReplacesEntry ==
    /\ [](\A w \in WorldIds, ms \in MsFromNowChoices, hint \in HintChoices \cup {NoString} :
             LET next == applySetSpawnTimer(states, w, ms, now, hint)
             IN /\ DOMAIN next = DOMAIN states \cup {w}
                /\ next[w].treeStatus = "none"
                /\ next[w].nextSpawnTarget = now + ms
                /\ next[w].spawnSetAt = now
                /\ next[w].treeHint = hint
                /\ next[w].treeType = NoString
                /\ next[w].treeHealth = Undefined
                /\ next[w].treeExactLocation = NoString
                /\ next[w].treeSetAt = Undefined
                /\ next[w].matureAt = Undefined
                /\ next[w].deadAt = Undefined
                /\ \A v \in DOMAIN states \ {w} : next[v] = states[v])
    /\ [][\A w \in WorldIds, ms \in MsFromNowChoices, hint \in HintChoices :
             MutSetSpawnTimer(w, ms, hint) =>
                states'[w] = [BlankState EXCEPT !.nextSpawnTarget = now + ms,
                                                !.spawnSetAt = now,
                                                !.treeHint = hint]]_vars

\* a pending spawn set after the time 0 at which trees were reported, with
\* nothing of a tree in its entry, beside a world that still has its tree
C22_Witness ==
    /\ now > 0
    /\ \E w, v \in DOMAIN states :
          /\ states[w].spawnSetAt = now
          /\ states[w].nextSpawnTarget > now
          /\ states[w].treeStatus = "none"
          /\ states[w].treeType = NoString
          /\ states[w].treeHealth = Undefined
          /\ states[v].treeStatus \in {"sapling", "mature", "alive", "dead"}
          /\ states[v].treeHealth = 50


\* C23: for a world without an entry updateTreeFields and updateHealth return
\* the map they were given; and when the server handles such a message for a
\* world its session has no entry for, the store is left as it is and no
\* socket is sent a worldUpdate.
C23_UpdateWithoutEntryIsNoOp ==
    /\ [](\A i \in DOMAIN sessions : \A w \in WorldIds \ DOMAIN sessions[i].worldStates :
             /\ \A fields \in FieldsChoices :
                   applyUpdateTreeFields(sessions[i].worldStates, w, fields)
                      = sessions[i].worldStates
             /\ \A health \in HealthChoices :
                   applyUpdateHealth(sessions[i].worldStates, w, health)
                      = sessions[i].worldStates)
    /\ [][\A k \in DOMAIN conns :
             (/\ Consumes(k) /\ ~Refused(k)
              /\ Head(conns[k].c2s).type \in {"updateTreeFields", "updateHealth"}
              /\ Head(conns[k].c2s).worldId \notin DOMAIN sessions[conns[k].sess].worldStates)
             => /\ sessions' = sessions
                /\ \A x \in DOMAIN conns : \A j \in DOMAIN QueuedFor(x) :
                      QueuedFor(x)[j].type # "worldUpdate"]_vars

\* the session has state for world 1 and none for world 2, and the sender of
\* an updateTreeFields for world 2 holds its ack and nothing else
C23_Witness ==
    \E k \in DOMAIN conns :
        /\ conns[k].sess # NoSession
        /\ DOMAIN sessions[conns[k].sess].worldStates = {1}
        /\ conns[k].s2c = <<AckMsg(11)>>


\* a threshold of the entry s has been reached at time t
Due(s, t) ==
    \/ s.treeStatus = "sapling" /\ s.treeSetAt # Undefined
          /\ t >= s.treeSetAt + SAPLING_MATURE_MS
    \/ s.treeStatus \in {"mature", "alive"} /\ s.matureAt # Undefined
          /\ t >= s.matureAt + ALIVE_DEAD_MS
    \/ s.treeStatus = "dead" /\ s.deadAt # Undefined
          /\ t >= s.deadAt + DEAD_CLEAR_MS
    \/ s.nextSpawnTarget # Undefined /\ t >= s.nextSpawnTarget

\* the times at which the transitions are evaluated: now and the thresholds after it
TickTimes == {now, now + SAPLING_MATURE_MS, now + DEAD_CLEAR_MS, now + ALIVE_DEAD_MS}

\* C24: when no world of a session has a threshold reached at the time of
\* evaluation, applyTransitions returns the map it was given, with every
\* entry as it was, and a run of the session's transition timer leaves the
\* store as it is and sends nothing; at any time, a world without a threshold
\* reached has the same entry in the result.
C24_NothingDueNothingChanges ==
    \A i \in DOMAIN sessions :
        LET worlds == sessions[i].worldStates
        IN /\ \A t \in TickTimes :
                /\ (\A w \in DOMAIN worlds : ~Due(worlds[w], t))
                      => /\ ~TransitionsChanged(worlds, t)
                         /\ applyTransitions(worlds, t) = worlds
                /\ DOMAIN applyTransitions(worlds, t) = DOMAIN worlds
                /\ \A w \in DOMAIN worlds :
                      ~Due(worlds[w], t) => applyTransitions(worlds, t)[w] = worlds[w]
           /\ (sessions[i].live /\ \A w \in DOMAIN worlds : ~Due(worlds[w], now))
                 => transitionTimer(sessions, conns, i, now) = [ss |-> sessions, cs |-> conns]

\* after the clock has run, a session with a connected client holds a sapling
\* that a fired spawn made and a dead tree, none of them with a threshold
\* reached now, while the dead tree has one reached ten minutes from now
C24_Witness ==
    /\ now > 0
    /\ \E i \in DOMAIN sessions :
          /\ sessions[i].live
          /\ \E k \in sessions[i].clients : Reaches(conns[k])
          /\ DOMAIN sessions[i].worldStates = {1, 2}
          /\ sessions[i].worldStates[1].treeStatus = "sapling"
          /\ sessions[i].worldStates[2].treeStatus = "dead"
          /\ \A w \in {1, 2} : ~Due(sessions[i].worldStates[w], now)
          /\ Due(sessions[i].worldStates[2], now + DEAD_CLEAR_MS)


\* C25: for every entry the mutators and transitions reach: a sapling set at
\* T is mature when evaluated at T + 5 min and the same sapling at 1 ms less;
\* a mature or alive tree with matureAt M is dead at M + 30 min and unchanged
\* at 1 ms less; a dead tree with deadAt D has status none at D + 10 min and
\* is unchanged at 1 ms less; a pending spawn is a sapling when evaluated at
\* its nextSpawnTarget and unchanged at 1 ms less.
C25_ThresholdsInclusive ==
    \A w \in DOMAIN states :
        LET s == states[w]
            At(t) == applyTransitions(states, t)[w]
        IN /\ (s.treeStatus = "sapling" /\ s.treeSetAt # Undefined)
                 => /\ At(s.treeSetAt + SAPLING_MATURE_MS).treeStatus = "mature"
                    /\ At(s.treeSetAt + SAPLING_MATURE_MS - 1) = s
           /\ (s.treeStatus \in {"mature", "alive"} /\ s.matureAt # Undefined)
                 => /\ At(s.matureAt + ALIVE_DEAD_MS).treeStatus = "dead"
                    /\ At(s.matureAt + ALIVE_DEAD_MS - 1) = s
           /\ (s.treeStatus = "dead" /\ s.deadAt # Undefined)
                 => /\ At(s.deadAt + DEAD_CLEAR_MS).treeStatus = "none"
                    /\ At(s.deadAt + DEAD_CLEAR_MS - 1) = s
           /\ s.nextSpawnTarget # Undefined
                 => /\ At(s.nextSpawnTarget).treeStatus = "sapling"
                    /\ At(s.nextSpawnTarget - 1) = s

\* the transitions ran at the very millisecond of a threshold: a tree is
\* mature since now, beside a sapling, a dead tree or a pending spawn that
\* waits for its own threshold
C25_Witness ==
    /\ now > 0
    /\ \E w, v \in DOMAIN states :
          /\ states[w].treeStatus = "mature" /\ states[w].matureAt = now
          /\ states[w].treeSetAt = now - SAPLING_MATURE_MS
          /\ \/ states[v].treeStatus \in {"sapling", "dead"}
             \/ states[v].nextSpawnTarget # Undefined


\* C26: the timestamps a transition writes come from the timestamps of the
\* entry, not from the time of evaluation.  For every reachable entry s and
\* every evaluation time t: a sapling that ends mature has matureAt =
\* treeSetAt + 5 min; a mature or alive tree that ends dead has deadAt =
\* matureAt + 30 min, a sapling that ends dead has deadAt = treeSetAt + 35 min;
\* a pending spawn that ends a sapling has treeSetAt = nextSpawnTarget and
\* matureAt = nextSpawnTarget + 5 min; and two evaluation times that leave the
\* entry in the same status leave the same entry.
C26_StampsFromPhaseStart ==
    \A w \in DOMAIN states :
        LET s == states[w]
            At(t) == applyTransitions(states, t)[w]
        IN /\ \A t \in EvalTimes :
                /\ (s.treeStatus = "sapling" /\ At(t).treeStatus = "mature")
                      => At(t).matureAt = s.treeSetAt + SAPLING_MATURE_MS
                /\ (s.treeStatus \in {"mature", "alive"} /\ At(t).treeStatus = "dead")
                      => At(t).deadAt = s.matureAt + ALIVE_DEAD_MS
                /\ (s.treeStatus = "sapling" /\ At(t).treeStatus = "dead")
                      => At(t).deadAt = s.treeSetAt + SAPLING_MATURE_MS + ALIVE_DEAD_MS
                /\ (s.nextSpawnTarget # Undefined /\ At(t).treeStatus = "sapling")
                      => /\ At(t).treeSetAt = s.nextSpawnTarget
                         /\ At(t).matureAt = s.nextSpawnTarget + SAPLING_MATURE_MS
           /\ \A t1 \in EvalTimes, t2 \in EvalTimes :
                (t1 < t2 /\ At(t1).treeStatus = At(t2).treeStatus) => At(t1) = At(t2)

\* the transitions ran after the thresholds had passed: a tree is dead since
\* an earlier time, 30 minutes after it matured
C26_Witness ==
    \E w \in DOMAIN states :
        /\ states[w].treeStatus = "dead"
        /\ states[w].deadAt < now
        /\ states[w].deadAt = states[w].matureAt + ALIVE_DEAD_MS


\* C27: after one pass of applyTransitions at a time t no world of the result
\* has a threshold reached at t (a sapling set more than 35 minutes before t
\* ends the pass dead or cleared).
C27_OnePassLeavesNothingDue ==
    \A t \in EvalTimes : \A w \in DOMAIN states :
        ~Due(applyTransitions(states, t)[w], t)


\* C28: for every reachable entry, the pass at which a mature or alive tree
\* becomes dead leaves treeHealth, nextSpawnTarget and spawnSetAt unset, and
\* the pass at which a dead tree is cleared leaves the entry {treeStatus none}
\* with no other field.
C28_DeadClearsHealthAndNoneIsBare ==
    \A w \in DOMAIN states :
        LET s == states[w]
            At(t) == applyTransitions(states, t)[w]
        IN /\ (s.treeStatus \in {"mature", "alive"} /\ s.matureAt # Undefined)
                 => /\ At(s.matureAt + ALIVE_DEAD_MS).treeStatus = "dead"
                    /\ At(s.matureAt + ALIVE_DEAD_MS).treeHealth = Undefined
                    /\ At(s.matureAt + ALIVE_DEAD_MS).nextSpawnTarget = Undefined
                    /\ At(s.matureAt + ALIVE_DEAD_MS).spawnSetAt = Undefined
           /\ (s.treeStatus = "dead" /\ s.deadAt # Undefined)
                 => At(s.deadAt + DEAD_CLEAR_MS) = BlankState


(***************************************************************************)
(* SpecMature: applyTransitions on saplings read from localStorage, with  *)
(* every sapling marker the tree-type labels name.                         *)
(***************************************************************************)
MatureMaxClockSteps == 2
MatureDeltas == {SAPLING_MATURE_MS - 1, 1}

\* the species of a typed sapling marker
SaplingSpecies ==
    ("sapling-tree" :> "tree") @@ ("sapling-oak" :> "oak")
    @@ ("sapling-willow" :> "willow") @@ ("sapling-maple" :> "maple")
    @@ ("sapling-yew" :> "yew") @@ ("sapling-magic" :> "magic")
    @@ ("sapling-elder" :> "elder")

SaplingMarkers == {"sapling"} \cup DOMAIN SaplingSpecies

InitMature ==
    /\ InitClock
    /\ states \in [WorldIds ->
                     {[BlankState EXCEPT !.treeStatus = "sapling", !.treeType = m,
                                         !.treeSetAt = 0,
                                         !.matureAt = SAPLING_MATURE_MS] :
                        m \in SaplingMarkers}]
    /\ InitNet

MatureAdvance(d) == AdvanceClock(d, MatureMaxClockSteps) /\ UNCHANGED <<mutVars, netVars>>

NextMature ==
    \/ \E d \in MatureDeltas : MatureAdvance(d)
    \/ MutTransitions

SpecMature == InitMature /\ [][NextMature]_vars

\* C29: a sapling evaluated at its maturation threshold has status mature;
\* its type is the species of its marker when the marker is typed
\* (sapling-oak gives oak) and mature when the marker is the plain sapling.
C29_TypedSaplingMaturesToSpecies ==
    \A w \in DOMAIN states :
        states[w].treeStatus = "sapling" =>
            LET result == applyTransitions(states, states[w].treeSetAt + SAPLING_MATURE_MS)[w]
            IN /\ result.treeStatus = "mature"
               /\ result.treeType = IF states[w].treeType = "sapling" THEN "mature"
                                    ELSE SaplingSpecies[states[w].treeType]


(***************************************************************************)
(* SpecReap: two sessions that age past the inactivity and the empty       *)
(* thresholds under the reaper, with clients connected or gone.            *)
(***************************************************************************)
ReapMaxClockSteps == 2
ReapMaxConns == 2
ReapMaxSessions == 2
ReapMaxFrames == 2
ReapDeltas == {EMPTY_SESSION_TTL_MS, SESSION_INACTIVITY_MS}
ReapFrames == {WithMsgId(SetSpawnTimerMsg(1, SAPLING_MATURE_MS, NoString), Undefined)}

ReapAdvance(d) == AdvanceClock(d, ReapMaxClockSteps) /\ UNCHANGED <<mutVars, netVars>>

NextReap ==
    \/ \E d \in ReapDeltas : ReapAdvance(d)
    \/ Reaper
    \/ Len(conns) < ReapMaxConns /\ Len(sessions) < ReapMaxSessions
       /\ UserCreateSession(1, "ABCDEF")
    \/ Len(conns) < ReapMaxConns /\ Len(sessions) < ReapMaxSessions
       /\ UserCreateSession(2, "GHJKLM")
    \/ Len(conns) < ReapMaxConns /\ UserJoinSession(2, "ABCDEF")
    \/ UserLeaveSession(2)
    \/ \E k \in 1..ReapMaxConns, frame \in ReapFrames :
          /\ Idle
          /\ k \in DOMAIN conns /\ conns[k].owner = 1
          /\ conns[k].rateCount < ReapMaxFrames
          /\ PeerSend(k, frame)
    \/ \E i \in 1..ReapMaxSessions : ServerTick(i)
    \/ \E k \in 1..ReapMaxConns : ClientOpen(k)
    \/ \E k \in 1..ReapMaxConns : ClientReceive(k)
    \/ \E k \in 1..ReapMaxConns : ServerAccept(k)
    \/ \E k \in 1..ReapMaxConns : ServerReceive(k)
    \/ \E k \in 1..ReapMaxConns : ServerCloseEvent(k)

SpecReap == InitRetry /\ [][NextReap]_vars

InactiveAt(s, t) == t - s.lastActivityAt > SESSION_INACTIVITY_MS
EmptyAt(s, t) == s.emptySince # NoTime /\ t - s.emptySince > EMPTY_SESSION_TTL_MS
ReasonAt(s, t) == IF InactiveAt(s, t) THEN "Session expired due to inactivity."
                  ELSE "Session closed after being empty for 60 minutes."

\* C30: in a run of the reaper, a stored session whose last activity is more
\* than the inactivity threshold ago, or which has been empty for more than the
\* empty threshold, is removed from the store with its timer stopped, and each
\* of its clients whose socket is open gets sessionClosed with the reason as
\* the last frame before the socket starts closing; a stored session that
\* meets neither condition, and the sockets of its clients, are unchanged.
C30_ReaperDestroysExpiredOnly ==
    [][lastCleanupAt' # lastCleanupAt =>
        \A i \in DOMAIN sessions :
            sessions[i].live =>
                IF InactiveAt(sessions[i], now) \/ EmptyAt(sessions[i], now)
                THEN /\ ~sessions'[i].live
                     /\ ~sessions'[i].transitionTimer
                     /\ getSession(sessions', sessions[i].code) = NoSession
                     /\ \A k \in sessions[i].clients :
                           conns[k].sst = "open" =>
                              /\ conns'[k].sst = "closing"
                              /\ Reaches(conns[k]) =>
                                    conns'[k].s2c =
                                       Append(conns[k].s2c,
                                              SessionClosedMsg(ReasonAt(sessions[i], now)))
                ELSE /\ sessions'[i] = sessions[i]
                     /\ \A k \in sessions[i].clients : conns'[k] = conns[k]]_vars

\* the reaper has just destroyed a session for inactivity whose client was
\* told so on a socket that is now closing, and has left a session with a
\* client in the store
C30_Witness ==
    /\ lastCleanupAt = now
    /\ \E i, j \in DOMAIN sessions :
          /\ ~sessions[i].live /\ ~sessions[i].transitionTimer
          /\ sessions[j].live /\ sessions[j].clients # {}
          /\ \E k \in sessions[i].clients :
                /\ conns[k].sst = "closing"
                /\ conns[k].s2c # << >>
                /\ conns[k].s2c[Len(conns[k].s2c)] =
                      SessionClosedMsg("Session expired due to inactivity.")


\* C31: once a session is out of the store, no step changes its worldStates
\* and no step appends a worldUpdate or clientCount frame to the socket of one
\* of its clients.
C31_DestroyedSessionIsInert ==
    [][\A i \in DOMAIN sessions :
          ~sessions[i].live =>
             /\ sessions'[i].worldStates = sessions[i].worldStates
             /\ \A k \in sessions[i].clients :
                   \/ Len(conns'[k].s2c) <= Len(conns[k].s2c)
                   \/ conns'[k].s2c[Len(conns'[k].s2c)].type
                         \notin {"worldUpdate", "clientCount"}]_vars


\* the frames a step has appended to the server-to-client queue of socket k
Appended(k) ==
    IF Len(conns'[k].s2c) >= Len(conns[k].s2c)
    THEN SubSeq(conns'[k].s2c, Len(conns[k].s2c) + 1, Len(conns'[k].s2c))
    ELSE << >>

\* C32: a run of a session's transition timer leaves worldStates equal to
\* applyTransitions of the map it found, which holds every mutation applied
\* before the run; each client the frames reach gets one worldUpdate, with the
\* new state, for exactly the worlds whose entry differs, and a worldUpdate
\* with state null for exactly the keys that the new map lacks; the sockets
\* of other sessions get nothing.
C32_TickBroadcastsTheDiff ==
    [][\A i \in DOMAIN sessions :
          ((sessions' # sessions \/ conns' # conns) /\ UNCHANGED <<cl, lastCleanupAt>>
           /\ (\A k \in DOMAIN conns : conns'[k].c2s = conns[k].c2s
                                       /\ conns'[k].sst = conns[k].sst)
           /\ ServerTick(i)) =>
             LET prev == sessions[i].worldStates
                 next == applyTransitions(prev, now)
                 changed == {w \in DOMAIN next : w \notin DOMAIN prev \/ next[w] # prev[w]}
                 removed == DOMAIN prev \ DOMAIN next
             IN /\ sessions'[i] = [sessions[i] EXCEPT !.worldStates = next]
                /\ \A k \in DOMAIN conns :
                      IF k \in sessions[i].clients /\ Reaches(conns[k])
                      THEN /\ conns'[k] = [conns[k] EXCEPT !.s2c = @ \o Appended(k)]
                           /\ Len(Appended(k)) = Cardinality(changed) + Cardinality(removed)
                           /\ \A w \in changed :
                                 \E j \in DOMAIN Appended(k) :
                                    Appended(k)[j] = WorldUpdateMsg(w, FALSE, next[w])
                           /\ \A w \in removed :
                                 \E j \in DOMAIN Appended(k) :
                                    Appended(k)[j] = WorldUpdateMsg(w, TRUE, BlankState)
                      ELSE conns'[k] = conns[k]]_vars

\* a run of the timer has made the sapling of world 1 from its spawn timer and
\* broadcast it, and the dead tree that a markDead stored for world 2 is still
\* in the map
C32_Witness ==
    \E i \in DOMAIN sessions :
        /\ sessions[i].live
        /\ DOMAIN sessions[i].worldStates = {1, 2}
        /\ sessions[i].worldStates[1].treeStatus = "sapling"
        /\ sessions[i].worldStates[2].treeStatus = "dead"
        /\ \E k \in sessions[i].clients :
              \E j \in DOMAIN conns[k].s2c :
                 conns[k].s2c[j] = WorldUpdateMsg(1, FALSE, sessions[i].worldStates[1])


\* the sockets that were registered with a session and are no longer in its
\* client set
Removed == {k \in DOMAIN conns :
              conns[k].sess # NoSession /\ k \notin sessions[conns[k].sess].clients}

InWindow(k, t) ==
    conns[k].rateStart # NoTime /\ t - conns[k].rateStart <= RATE_LIMIT_WINDOW_MS

\* the next frame of socket k is over the size limit of its type
Oversize(k) == FrameLength(Head(conns[k].c2s)) > SizeLimit(Head(conns[k].c2s))

\* C34 as stated: every frame that the server takes from a socket which has
\* had ten frames counted in the running window is answered with the error
\* 'Rate limit exceeded.' and nothing else, and changes no session.
C34_EveryFurtherFrameIsRateLimited ==
    [][\A k \in DOMAIN conns :
          (Consumes(k) /\ InWindow(k, now) /\ conns[k].rateCount >= RATE_LIMIT_MAX)
          => /\ QueuedFor(k) = <<ErrorMsg("Rate limit exceeded.")>>
             /\ sessions' = sessions]_vars

\* C34 amended: of the frames within the size limit at most ten are passed on
\* in one window, which starts with the first frame counted and runs for
\* RATE_LIMIT_WINDOW_MS: such a frame is counted, and it is passed on exactly
\* when it is the first after the window, which sets the count to 1 and starts
\* the next window, or one of the first ten of the running window; each
\* further one is answered with the error 'Rate limit exceeded.' and nothing
\* else and changes no session.  A frame over the size limit is answered with
\* 'Message too large.', is not counted and changes no session.
C34_TenPerWindowWithinSize ==
    /\ [](\A k \in DOMAIN conns :
             /\ conns[k].rateCount = 0 <=> conns[k].rateStart = NoTime
             /\ \A t \in {now, now + RATE_LIMIT_WINDOW_MS, now + RATE_LIMIT_WINDOW_MS + 1} :
                   LET r == checkRateLimit(conns[k], t)
                   IN IF InWindow(k, t)
                      THEN /\ r.ok <=> conns[k].rateCount < RATE_LIMIT_MAX
                           /\ r.sock.rateCount = conns[k].rateCount + 1
                           /\ r.sock.rateStart = conns[k].rateStart
                      ELSE /\ r.ok
                           /\ r.sock.rateCount = 1
                           /\ r.sock.rateStart = t)
    /\ [][\A k \in DOMAIN conns :
             Consumes(k) =>
                IF Oversize(k)
                THEN /\ QueuedFor(k) = <<ErrorMsg("Message too large.")>>
                     /\ conns'[k].rateCount = conns[k].rateCount
                     /\ conns'[k].rateStart = conns[k].rateStart
                     /\ sessions' = sessions
                ELSE IF InWindow(k, now)
                THEN /\ conns'[k].rateCount = conns[k].rateCount + 1
                     /\ conns'[k].rateStart = conns[k].rateStart
                     /\ conns[k].rateCount >= RATE_LIMIT_MAX
                           => /\ QueuedFor(k) = <<ErrorMsg("Rate limit exceeded.")>>
                              /\ sessions' = sessions
                     /\ conns[k].rateCount < RATE_LIMIT_MAX
                           => \A j \in DOMAIN QueuedFor(k) :
                                 QueuedFor(k)[j] # ErrorMsg("Rate limit exceeded.")
                ELSE /\ conns'[k].rateCount = 1
                     /\ conns'[k].rateStart = now
                     /\ \A j \in DOMAIN QueuedFor(k) :
                           QueuedFor(k)[j] # ErrorMsg("Rate limit exceeded.")]_vars

\* a socket has had more than ten frames counted in its window and holds the
\* error for the last of them, and the window is over one millisecond after
\* its last instant
C34_Witness ==
    \E k \in DOMAIN conns :
        /\ conns[k].rateCount > RATE_LIMIT_MAX
        /\ conns[k].s2c = <<ErrorMsg("Rate limit exceeded.")>>
        /\ InWindow(k, conns[k].rateStart + RATE_LIMIT_WINDOW_MS)
        /\ ~InWindow(k, conns[k].rateStart + RATE_LIMIT_WINDOW_MS + 1)


(***************************************************************************)
(* SpecTeardown: one client with its acknowledgement, heartbeat and        *)
(* reconnect timers, which leaves, is told that the session was closed, or *)
(* unmounts.                                                               *)
(***************************************************************************)
TeardownMaxConns == 2
TeardownMaxMutations == 1
TeardownMaxClockSteps == 1
TeardownMaxFrames == 2
TeardownDeltas == {SESSION_INACTIVITY_MS + 1}

TeardownAdvance(d) ==
    AdvanceClock(d, TeardownMaxClockSteps) /\ UNCHANGED <<mutVars, netVars>>

NextTeardown ==
    \/ \E d \in TeardownDeltas : TeardownAdvance(d)
    \/ Reaper
    \/ cl[1].mounted /\ Len(sessions) < 1 /\ Len(conns) < TeardownMaxConns
       /\ UserCreateSession(1, "ABCDEF")
    \/ cl[1].mounted /\ Len(conns) < TeardownMaxConns /\ UserJoinSession(1, "ABCDEF")
    \/ cl[1].mounted /\ UserLeaveSession(1)
    \/ \E m \in RetryMutations :
          /\ cl[1].mounted
          /\ cl[1].issued < TeardownMaxMutations /\ cl[1].status # "disconnected"
          /\ UserMutate(1, m)
    \/ Unmount(1)
    \/ \E j \in 1..TeardownMaxMutations : AckTimeout(1, j)
    \/ /\ cl[1].pingAckTimer = NoConn /\ cl[1].pingTimer # NoConn
       /\ conns[cl[1].pingTimer].rateCount < TeardownMaxFrames
       /\ PingTimerFires(1)
    \/ PingAckTimeout(1)
    \/ Len(conns) < TeardownMaxConns /\ ReconnectTimerFires(1)
    \/ \E k \in 1..TeardownMaxConns : ClientOpen(k)
    \/ \E k \in 1..TeardownMaxConns : ClientReceive(k)
    \/ \E k \in 1..TeardownMaxConns : ClientCloseEvent(k)
    \/ \E k \in 1..TeardownMaxConns : ServerAccept(k)
    \/ \E k \in 1..TeardownMaxConns : ServerReceive(k)

SpecTeardown == InitRetry /\ [][NextTeardown]_vars

\* client c has left its session, was told that it was closed, or is unmounted
TornDown(c) ==
    \/ ~cl[c].mounted
    \/ cl[c].status = "disconnected" /\ cl[c].code = NoCode

ValidMaxConns == 1
ValidMaxFrames == 3
ValidMaxClockSteps == 1
ValidDeltas == {MAX_MS_FROM_NOW}

RECURSIVE Repeat(_, _)
Repeat(s, n) ==
    IF n = 0 THEN ""
    ELSE LET half == Repeat(s, n \div 2)
         IN IF n % 2 = 0 THEN half \o half ELSE half \o half \o s

LongestString == Repeat("x", MAX_STRING_LEN)
TooLongString == Repeat("x", MAX_STRING_LEN + 1)
\* MAX_STRING_LEN characters between a blank and a control character
PaddedString == " " \o LongestString \o "\t"

ElmInfo == [treeType |-> "yew", treeHint |-> "", treeExactLocation |-> NoString,
            treeHealth |-> Undefined]

\* payloads of initializeState: entries at the limits; entries beyond them;
\* and a tree that is alive beside a spawn timer
SeedAtLimits ==
    (1 :> [OakState EXCEPT !.treeHealth = 100, !.treeHint = PaddedString])
    @@ (2 :> [OakState EXCEPT !.treeHealth = 5, !.treeExactLocation = LongestString])
SeedBeyondLimits ==
    (1 :> [OakState EXCEPT !.treeHealth = 7])
    @@ (2 :> [OakState EXCEPT !.treeHint = TooLongString])
    @@ (0 :> OakState)
    @@ (3 :> [OakState EXCEPT !.treeHealth = 105])
    @@ (4 :> [OakState EXCEPT !.treeExactLocation = TooLongString])
SeedAliveWithTimer ==
    (1 :> [OakState EXCEPT !.nextSpawnTarget = MAX_MS_FROM_NOW, !.spawnSetAt = 0])

ValidFrames ==
    { WithMsgId(SetSpawnTimerMsg(1, ms, NoString), Undefined) :
         ms \in {0, 1, MAX_MS_FROM_NOW, MAX_MS_FROM_NOW + 1} }
    \cup { WithMsgId(SetSpawnTimerMsg(2, 1, hint), Undefined) :
              hint \in {PaddedString, TooLongString} }
    \cup { WithMsgId(SetTreeInfoMsg(1, [ElmInfo EXCEPT !.treeHealth = h]), Undefined) :
              h \in {0, 5, 7, 100, 105} }
    \cup { WithMsgId(SetTreeInfoMsg(2, [ElmInfo EXCEPT !.treeHint = hint]), Undefined) :
              hint \in {NoString, LongestString, TooLongString} }
    \cup { WithMsgId(SetTreeInfoMsg(2, [ElmInfo EXCEPT !.treeExactLocation = loc]), Undefined) :
              loc \in {PaddedString, TooLongString} }
    \cup { WithMsgId(UpdateTreeFieldsMsg(1, f), Undefined) :
              f \in { "treeHint" :> TooLongString, "treeExactLocation" :> TooLongString,
                      "treeHint" :> PaddedString, "treeHealth" :> 95,
                      "treeHealth" :> 98 } }
    \cup { WithMsgId(UpdateHealthMsg(1, h), Undefined) : h \in {Undefined, 10, 3} }
    \cup { WithMsgId(MarkDeadMsg(w), Undefined) : w \in {2, 0, 3} }
    \cup { [type |-> "initializeState", worlds |-> s] :
              s \in {SeedAtLimits, SeedBeyondLimits, SeedAliveWithTimer} }

ValidAdvance(d) == AdvanceClock(d, ValidMaxClockSteps) /\ UNCHANGED <<mutVars, netVars>>

NextValid ==
    \/ \E d \in ValidDeltas : ValidAdvance(d)
    \/ Len(conns) < ValidMaxConns /\ UserCreateSession(1, "ABCDEF")
    \/ \E frame \in ValidFrames :
          /\ Idle
          /\ 1 \in DOMAIN conns /\ conns[1].rateCount < ValidMaxFrames
          /\ PeerSend(1, frame)
    \/ \E i \in 1..ValidMaxConns : ServerTick(i)
    \/ \E k \in 1..ValidMaxConns : ClientOpen(k)
    \/ \E k \in 1..ValidMaxConns : ClientReceive(k)
    \/ \E k \in 1..ValidMaxConns : ServerAccept(k)
    \/ \E k \in 1..ValidMaxConns : ServerReceive(k)

SpecValid == InitRetry /\ [][NextValid]_vars

\* C36: in every state every key of every session's worldStates is a world
\* id of the catalogue, every stored treeHealth is a multiple of 5 from 5 to
\* 100 and every stored hint and exact location has at most 200 characters;
\* and a setSpawnTimer frame that changes a session's worldStates leaves in
\* its world a nextSpawnTarget later than the time the server applied it by
\* more than 0 and at most 2 hours.
C36_StoredValuesAreValidated ==
    /\ [](\A i \in DOMAIN sessions : \A w \in DOMAIN sessions[i].worldStates :
             LET st == sessions[i].worldStates[w]
             IN /\ w \in WorldIds
                /\ IsDefined(st.treeHealth)
                      => st.treeHealth % 5 = 0 /\ st.treeHealth >= 5 /\ st.treeHealth <= 100
                /\ st.treeHint # NoString => Len(st.treeHint) <= 200
                /\ st.treeExactLocation # NoString => Len(st.treeExactLocation) <= 200)
    /\ [][\A k \in DOMAIN conns :
             (/\ Consumes(k)
              /\ Head(conns[k].c2s).type = "setSpawnTimer"
              /\ sessions'[conns[k].sess].worldStates # sessions[conns[k].sess].worldStates)
             => LET w == Head(conns[k].c2s).worldId
                    next == sessions'[conns[k].sess].worldStates
                IN /\ w \in DOMAIN next
                   /\ next[w].nextSpawnTarget > now
                   /\ next[w].nextSpawnTarget <= now + 7200000]_vars

\* a session stores a hint of 200 characters that arrived padded with a spawn
\* timer, beside a tree of health 100
C36_Witness ==
    \E i \in DOMAIN sessions :
        /\ DOMAIN sessions[i].worldStates = {1, 2}
        /\ sessions[i].worldStates[2].treeHint = LongestString
        /\ IsDefined(sessions[i].worldStates[2].nextSpawnTarget)
        /\ sessions[i].worldStates[1].treeHealth = 100

\* C37: every world state stored in a session, the states that an
\* initializeState frame introduced included, has nextSpawnTarget set only
\* when its treeStatus is none.
C37_SpawnTargetOnlyWithoutTree ==
    \A i \in DOMAIN sessions : \A w \in DOMAIN sessions[i].worldStates :
        IsDefined(sessions[i].worldStates[w].nextSpawnTarget)
           => sessions[i].worldStates[w].treeStatus = "none"

\* the maps from and to have the same entries except for world w
SameButFor(from, w, to) ==
    /\ DOMAIN to \ {w} = DOMAIN from \ {w}
    /\ \A v \in DOMAIN from \ {w} : to[v] = from[v]

\* C38: every mutator applied to world w leaves the entry of every other
\* world as it is; clearWorld(w) removes the key w and no other, and on a map
\* without an entry for w it returns a map with the same contents.
C38_MutatorsTouchOneWorld ==
    /\ [](\A w \in WorldIds :
            /\ \A ms \in MsFromNowChoices, hint \in HintChoices \cup {NoString} :
                  SameButFor(states, w, applySetSpawnTimer(states, w, ms, now, hint))
            /\ \A info \in InfoChoices :
                  SameButFor(states, w, applySetTreeInfo(states, w, info, now))
            /\ \A fields \in FieldsChoices :
                  SameButFor(states, w, applyUpdateTreeFields(states, w, fields))
            /\ \A health \in HealthChoices :
                  SameButFor(states, w, applyUpdateHealth(states, w, health))
            /\ SameButFor(states, w, applyMarkDead(states, w, now))
            /\ SameButFor(states, w, applyClearWorld(states, w))
            /\ DOMAIN applyClearWorld(states, w) = DOMAIN states \ {w}
            /\ w \notin DOMAIN states => applyClearWorld(states, w) = states)
    /\ [][\A w \in WorldIds :
             (MutSetSpawnTimer(w, SAPLING_MATURE_MS, "Close to a mine")
              \/ (\E info \in InfoChoices : MutSetTreeInfo(w, info))
              \/ (\E fields \in FieldsChoices : MutUpdateTreeFields(w, fields))
              \/ (\E health \in HealthChoices : MutUpdateHealth(w, health))
              \/ MutMarkDead(w)
              \/ MutClearWorld(w))
             => SameButFor(states, w, states')]_vars

\* setTreeInfo and markDead have left a dead tree of health 50 on world 2 and
\* world 1 has no entry: clearWorld(1) meets a missing key, and every mutator
\* on world 1 the entry of another world
C38_Witness ==
    /\ DOMAIN states = {2}
    /\ states[2].treeStatus = "dead"
    /\ states[2].treeHealth = 50
    /\ now > 0

\* C39: in every state, a session in the store has emptySince set exactly
\* when it has no client.  A session is created with emptySince = now and no
\* client; the step that removes its last client sets emptySince to now, the
\* step that adds a client to it while it is empty clears emptySince, and no
\* other step changes emptySince; and a session that leaves the store while it
\* has a client leaves it for inactivity.
C39_EmptySinceIffNoClient ==
    /\ [](\A i \in DOMAIN sessions :
             sessions[i].live =>
                (sessions[i].emptySince # NoTime <=> sessions[i].clients = {}))
    /\ [][\A i \in DOMAIN sessions' :
             IF i \notin DOMAIN sessions
             THEN sessions'[i].emptySince = now /\ sessions'[i].clients = {}
             ELSE /\ (sessions[i].live /\ sessions'[i].live) =>
                        sessions'[i].emptySince =
                           IF sessions[i].clients # {} /\ sessions'[i].clients = {} THEN now
                           ELSE IF sessions'[i].clients # {} THEN NoTime
                           ELSE sessions[i].emptySince
                  /\ (sessions[i].live /\ ~sessions'[i].live /\ sessions[i].clients # {})
                        => InactiveAt(sessions[i], now)]_vars

\* a session with a client, created two hours ago, is in the store after a
\* run of the reaper, beside a session that was left by its last client
C39_Witness ==
    /\ lastCleanupAt = now
    /\ \E i \in DOMAIN sessions :
          /\ sessions[i].live
          /\ sessions[i].clients # {}
          /\ now - sessions[i].lastActivityAt > EMPTY_SESSION_TTL_MS
    /\ \E i \in DOMAIN sessions :
          /\ sessions[i].live
          /\ sessions[i].clients = {}
          /\ sessions[i].emptySince > sessions[i].lastActivityAt

(***************************************************************************)
(* SpecLive: one client, whose first socket may be lost at any time and    *)
(* whose later sockets stay open until the client closes them, and a       *)
(* server that answers: an acknowledgement timeout fires only when nothing *)
(* is on its way on the timer's socket in either direction.  The user      *)
(* issues a valid mutation or a spawn timer of 2 hours and 1 millisecond.  *)
(* Every handler that is due runs eventually.                              *)
(***************************************************************************)
LiveMaxConns == 4
LiveMaxMutations == 1
LiveMutations ==
    { SetSpawnTimerMsg(1, SAPLING_MATURE_MS, NoString),
      SetSpawnTimerMsg(1, MAX_MS_FROM_NOW + 1, NoString) }

\* the server has answered every frame of socket k and the answers are handled
Answered(k) == conns[k].c2s = << >> /\ conns[k].s2c = << >>

LiveAckTimeout(j) ==
    /\ j \in DOMAIN cl[1].pending
    /\ cl[1].pending[j].timer
    /\ Answered(cl[1].pending[j].ws)
    /\ AckTimeout(1, j)

\* the close event of a socket that one of its ends has closed
LiveClientCloseEvent(k) ==
    /\ k \in DOMAIN conns
    /\ conns[k].cst = "closing" \/ conns[k].sst \in {"closing", "closed"}
    /\ ClientCloseEvent(k)

LiveServerCloseEvent(k) ==
    /\ k \in DOMAIN conns
    /\ conns[k].cst \in {"closing", "closed"}
    /\ ServerCloseEvent(k)

LiveReconnect == Len(conns) < LiveMaxConns /\ ReconnectTimerFires(1)

\* the handlers and timers that are due
LiveDue ==
    \/ \E j \in 1..LiveMaxMutations : LiveAckTimeout(j)
    \/ LiveReconnect
    \/ \E k \in 1..LiveMaxConns : ClientOpen(k)
    \/ \E k \in 1..LiveMaxConns : ClientReceive(k)
    \/ \E k \in 1..LiveMaxConns : LiveClientCloseEvent(k)
    \/ \E k \in 1..LiveMaxConns : ServerAccept(k)
    \/ \E k \in 1..LiveMaxConns : ServerReceive(k)
    \/ \E k \in 1..LiveMaxConns : LiveServerCloseEvent(k)

NextLive ==
    \/ sessions = << >> /\ UserCreateSession(1, "ABCDEF")
    \/ \E m \in LiveMutations :
          /\ cl[1].issued < LiveMaxMutations /\ cl[1].status # "disconnected"
          /\ UserMutate(1, m)
    \/ ClientCloseEvent(1)
    \/ ServerCloseEvent(1)
    \/ LiveDue

\* the event loops run a handler while one is due
LiveFairness == WF_vars(LiveDue)

SpecLive == InitRetry /\ [][NextLive]_vars /\ LiveFairness

C40_AcceptedMutationsDrain ==
    <>[](\A j \in DOMAIN cl[1].pending :
            validateMessage(WithMsgId(cl[1].pending[j].msg, 1)) # NoError)

====
